---- MODULE Spec2Model ----
(***************************************************************************)
(* A state-machine model of the bytecode virtual machine of src/src/vm.c.  *)
(* The C global `VM vm` is the record-valued variable vm; every helper of  *)
(* vm.c is an operator from a machine record to a machine record, and      *)
(* every opcode of run() is one action.  The instruction stream is an      *)
(* input: each step picks the next opcode and its operands from small      *)
(* sets, restricted to what the compiler emits for the current frame.      *)
(***************************************************************************)
EXTENDS Integers, Sequences, FiniteSets, TLC

\* vm:     the global VM, its heap included
\* status: uninit, idle (no run in progress), running (inside run()), crashed
\* result: what the last vm_interpret returned
\* shadow: for every upvalue created, the variable it was created for
\* source: which script vm_interpret was given
VARIABLES vm, status, result, shadow, source

vars == <<vm, status, result, shadow, source>>

(***************************************************************************)
(* Bounds of the model.                                                    *)
(***************************************************************************)
\* capacity of vm.stack, scaled down
STACK_MAX == 4
\* capacity of vm.frames, scaled down
FRAMES_MAX == 2
\* objects the instructions of one behaviour may allocate
MaxObjects == 4
\* calls of vm_interpret in one behaviour
MaxRuns == 1
\* how long a list may grow
MaxList == 2
\* host calls of vm_define_native_fn after vm_init in one behaviour
MaxDefines == 1
\* largest argument count of a CALL
MaxArgc == 1
\* the longest string and the largest number an OP_ADD may produce
MaxChars == 2

(***************************************************************************)
(* Values: value_make_nil, value_make_bool, value_make_number,             *)
(* value_make_obj.  A number is a small integer; an object value holds the *)
(* object's address, which is its index in vm.objects.                     *)
(***************************************************************************)
NULL == 0

value_make_nil == [t |-> "nil", v |-> 0]

value_make_bool(b) == [t |-> "bool", v |-> IF b THEN 1 ELSE 0]

value_make_number(n) == [t |-> "num", v |-> n]

value_make_obj(id) == [t |-> "obj", v |-> id]

value_is_number(x) == x.t = "num"

value_is_obj(x) == x.t = "obj"

obj_get_type(m, x) == m.objects[x.v].kind

obj_is_kind(m, x, k) ==
    /\ value_is_obj(x)
    /\ x.v \in DOMAIN m.objects
    /\ m.objects[x.v].kind = k

obj_is_list(m, x) == obj_is_kind(m, x, "list")

obj_is_instance(m, x) == obj_is_kind(m, x, "instance")

obj_is_class(m, x) == obj_is_kind(m, x, "class")

obj_is_string(m, x) == obj_is_kind(m, x, "string")

(***************************************************************************)
(* Hash tables (globals, methods, fields): a function from key addresses   *)
(* to values.                                                              *)
(***************************************************************************)
EmptyTable == [k \in {} |-> value_make_nil]

table_has(t, k) == k \in DOMAIN t

\* table_set stores the entry; its result (is the key new) is table_is_new
table_set(t, k, x) == [j \in DOMAIN t \cup {k} |-> IF j = k THEN x ELSE t[j]]

table_is_new(t, k) == k \notin DOMAIN t

table_delete(t, k) == [j \in DOMAIN t \ {k} |-> t[j]]

\* table_append(a, b): the two tables after the call; every entry of the
\* second table has been stored in the first
table_append(a, b) ==
    [first |-> [j \in DOMAIN a \cup DOMAIN b |-> IF j \in DOMAIN b THEN b[j] ELSE a[j]],
     second |-> b]

(***************************************************************************)
(* The heap.  vm.objects is the sequence of every object allocated, an     *)
(* object's address is its index; vm.freed is the set of addresses the     *)
(* collector has swept.                                                    *)
(***************************************************************************)
ValueRefs(x) == IF x.t = "obj" THEN {x.v} ELSE {}

TableRefs(t) == DOMAIN t \cup UNION {ValueRefs(t[k]) : k \in DOMAIN t}

SeqRefs(s) == UNION {ValueRefs(s[i]) : i \in DOMAIN s}

\* blacken_object: the addresses an object holds
ObjRefs(o) ==
    CASE o.kind = "function" -> o.constants \cup (IF o.name = NULL THEN {} ELSE {o.name})
      [] o.kind = "closure" -> {o.function} \cup {o.upvalues[i] : i \in DOMAIN o.upvalues}
      [] o.kind = "upvalue" -> ValueRefs(o.closed)
      [] o.kind = "class" -> {o.name} \cup TableRefs(o.methods)
      [] o.kind = "instance" -> {o.cls} \cup TableRefs(o.fields)
      [] o.kind = "bound_method" -> ValueRefs(o.receiver) \cup {o.method}
      [] o.kind = "list" -> SeqRefs(o.items)
      [] OTHER -> {}

RECURSIVE OpenList(_, _)
\* the addresses on the open-upvalue list that starts at u, head first
OpenList(objs, u) ==
    IF u = NULL \/ u \notin DOMAIN objs THEN <<>>
    ELSE <<u>> \o OpenList(objs, objs[u].next)

\* mark_roots: stack, frames' closures, open upvalues, globals, init_str
Roots(m) ==
    UNION {ValueRefs(m.stack[i]) : i \in {j \in DOMAIN m.stack : j >= 0 /\ j < m.stack_top}}
    \cup {m.frames[i].closure : i \in {j \in 0..(FRAMES_MAX - 1) : j < m.frame_count}}
    \cup {OpenList(m.objects, m.open_upvalues)[i] :
             i \in DOMAIN OpenList(m.objects, m.open_upvalues)}
    \cup TableRefs(m.globals)
    \cup (IF m.init_str = NULL THEN {} ELSE {m.init_str})

RECURSIVE Trace(_, _, _)
\* trace_references: the addresses reachable from the gray set
Trace(objs, gray, black) ==
    IF gray = {} THEN black
    ELSE LET next == UNION {ObjRefs(objs[g]) : g \in gray \cap DOMAIN objs}
         IN Trace(objs, next \ (black \cup gray), black \cup gray)

Reachable(m, extra) == Trace(m.objects, (Roots(m) \cup extra) \ {NULL}, {})

\* collect_garbage: everything not reachable from the roots is swept
collect_garbage(m, extra) ==
    [m EXCEPT !.freed = @ \cup (DOMAIN m.objects \ Reachable(m, extra))]

\* reallocate: under stress a collection runs before every allocation
mem_realloc(m) == IF m.stress THEN collect_garbage(m, {}) ELSE m

\* allocate_object: the new object's address is NewId(m)
NewId(m) == Len(m.objects) + 1

allocate_obj(m, o) ==
    LET c == mem_realloc(m) IN [c EXCEPT !.objects = Append(@, o)]

(***************************************************************************)
(* Object constructors (obj_*_new).                                        *)
(***************************************************************************)
\* the location of an upvalue that points at its own closed field
CLOSED == -1

obj_string_new(chars) == [kind |-> "string", chars |-> chars]

obj_function_new(arity, upvalue_count, name, constants) ==
    [kind |-> "function", arity |-> arity, upvalue_count |-> upvalue_count,
     name |-> name, constants |-> constants]

obj_closure_new(function, upvalue_count) ==
    [kind |-> "closure", function |-> function,
     upvalues |-> [i \in 1..upvalue_count |-> NULL]]

obj_upvalue_new(local) ==
    [kind |-> "upvalue", location |-> local, closed |-> value_make_nil, next |-> NULL]

obj_class_new(name) == [kind |-> "class", name |-> name, methods |-> EmptyTable]

obj_instance_new(cls) == [kind |-> "instance", cls |-> cls, fields |-> EmptyTable]

obj_bound_method_new(receiver, method) ==
    [kind |-> "bound_method", receiver |-> receiver, method |-> method]

obj_native_fn_new(function) == [kind |-> "native_fn", function |-> function]

obj_list_new == [kind |-> "list", items |-> <<>>]

\* the interned string with these characters that is still alive, or NULL
table_find_string(m, chars) ==
    LET hit == {i \in DOMAIN m.objects \ m.freed :
                   m.objects[i].kind = "string" /\ m.objects[i].chars = chars}
    IN IF hit = {} THEN NULL ELSE CHOOSE i \in hit : \A j \in hit : i <= j

\* obj_string_cpy: the interned string, allocated when there is none
obj_string_cpy(m, chars) ==
    IF table_find_string(m, chars) # NULL
    THEN [m |-> m, id |-> table_find_string(m, chars)]
    ELSE [m |-> allocate_obj(m, obj_string_new(chars)), id |-> NewId(m)]

(***************************************************************************)
(* The operand stack.                                                      *)
(***************************************************************************)
vm_stack_reset(m) ==
    [m EXCEPT !.stack_top = 0, !.frame_count = 0, !.open_upvalues = NULL]

\* prints the message and the trace, then resets the stacks
raise_runtime_error(m) == vm_stack_reset([m EXCEPT !.raised = TRUE])

\* *vm.stack_top = value; vm.stack_top++ (a store outside the array is not kept)
vm_stack_push(m, value) ==
    [m EXCEPT !.stack = IF m.stack_top \in DOMAIN m.stack
                         THEN [@ EXCEPT ![m.stack_top] = value] ELSE @,
              !.stack_top = @ + 1]

vm_stack_pop(m) == [m EXCEPT !.stack_top = @ - 1]

\* the slot a read or write at this address touches (outside the array: nil)
stack_at(m, i) == IF i \in DOMAIN m.stack THEN m.stack[i] ELSE value_make_nil

stack_store(m, i, value) ==
    [m EXCEPT !.stack = IF i \in DOMAIN m.stack THEN [@ EXCEPT ![i] = value] ELSE @]

vm_stack_peek(m, distance) == stack_at(m, m.stack_top - 1 - distance)

(***************************************************************************)
(* Calls.                                                                  *)
(***************************************************************************)
\* obj_func_call without the comparison of argc with the arity
obj_func_call_noarity(m, closure, argc) ==
    IF m.frame_count = FRAMES_MAX
    THEN [m |-> raise_runtime_error(m), ok |-> FALSE]
    ELSE [m |-> [m EXCEPT !.frames[m.frame_count] =
                              [closure |-> closure, slots |-> m.stack_top - argc - 1],
                          !.frame_count = @ + 1],
          ok |-> TRUE]

obj_func_call(m, closure, argc) ==
    IF argc # m.objects[m.objects[closure].function].arity
    THEN [m |-> raise_runtime_error(m), ok |-> FALSE]
    ELSE IF m.frame_count = FRAMES_MAX
    THEN [m |-> raise_runtime_error(m), ok |-> FALSE]
    ELSE [m |-> [m EXCEPT !.frames[m.frame_count] =
                              [closure |-> closure, slots |-> m.stack_top - argc - 1],
                          !.frame_count = @ + 1],
          ok |-> TRUE]

\* truncation of a double to int; the model's numbers are integral
double_to_int(n) == n

\* obj_list_is_valid_index
obj_list_is_valid_index(list, index) == index >= 0 /\ index <= Len(list.items) - 1

\* obj_list_append: grows the array (an allocation) and stores the item
obj_list_append(m, list, item) ==
    LET c == mem_realloc(m)
    IN [c EXCEPT !.objects[list].items = Append(@, item)]

\* obj_list_delete: removes the element, shifting the tail left
obj_list_delete(m, list, index) ==
    [m EXCEPT !.objects[list].items =
        [i \in 1..(Len(@) - 1) |-> IF i <= index THEN @[i] ELSE @[i + 1]]]

\* args[i] of a native call with argc arguments
native_arg(m, argc, i) == stack_at(m, m.stack_top - argc + i)

native_fn_clock(m, argc, clk) == [m |-> m, r |-> value_make_number(clk)]

native_fn_list_length(m, argc) ==
    IF argc # 1
    THEN [m |-> raise_runtime_error(m), r |-> value_make_nil]
    ELSE IF ~obj_is_list(m, native_arg(m, argc, 0))
    THEN [m |-> raise_runtime_error(m), r |-> value_make_nil]
    ELSE [m |-> m,
          r |-> value_make_number(Len(m.objects[native_arg(m, argc, 0).v].items))]

native_fn_list_append(m, argc) ==
    IF argc # 2
    THEN [m |-> raise_runtime_error(m), r |-> value_make_nil]
    ELSE IF ~obj_is_list(m, native_arg(m, argc, 0))
    THEN [m |-> raise_runtime_error(m), r |-> value_make_nil]
    ELSE [m |-> obj_list_append(m, native_arg(m, argc, 0).v, native_arg(m, argc, 1)),
          r |-> value_make_nil]

native_fn_list_delete(m, argc) ==
    IF argc # 2
    THEN [m |-> raise_runtime_error(m), r |-> value_make_nil]
    ELSE IF ~obj_is_list(m, native_arg(m, argc, 0))
    THEN [m |-> raise_runtime_error(m), r |-> value_make_nil]
    ELSE IF ~value_is_number(native_arg(m, argc, 1))
    THEN [m |-> raise_runtime_error(m), r |-> value_make_nil]
    ELSE IF ~obj_list_is_valid_index(m.objects[native_arg(m, argc, 0).v],
                                     double_to_int(native_arg(m, argc, 1).v))
    THEN [m |-> raise_runtime_error(m), r |-> value_make_nil]
    ELSE [m |-> obj_list_delete(m, native_arg(m, argc, 0).v,
                                double_to_int(native_arg(m, argc, 1).v)),
          r |-> value_make_nil]

\* the call native(argc, vm.stack_top - argc) through the function pointer
native_invoke(m, function, argc, clk) ==
    CASE function = "clock" -> native_fn_clock(m, argc, clk)
      [] function = "length" -> native_fn_list_length(m, argc)
      [] function = "append" -> native_fn_list_append(m, argc)
      [] OTHER -> native_fn_list_delete(m, argc)

\* value_call, case OBJ_NATIVE_FN
value_call_native(m, callee, argc, clk) ==
    LET n == native_invoke(m, m.objects[callee.v].function, argc, clk)
        popped == [n.m EXCEPT !.stack_top = @ - (argc + 1)]
    IN [m |-> vm_stack_push(popped, n.r), ok |-> TRUE]

\* value_call on a bound method that leaves the bound method in slot 0
value_call_bound_nostore(m, callee, argc) ==
    obj_func_call(m, m.objects[callee.v].method, argc)

\* value_call, case OBJ_BOUND_METHOD
value_call_bound(m, callee, argc) ==
    LET bound == m.objects[callee.v]
    IN obj_func_call(stack_store(m, m.stack_top - argc - 1, bound.receiver),
                     bound.method, argc)

\* value_call, case OBJ_CLASS
\* value_call on a class that accepts any argc when there is no initializer
value_call_class_anyargc(m, callee, argc) ==
    LET cls == callee.v
        a == allocate_obj(m, obj_instance_new(cls))
        s == stack_store(a, a.stack_top - argc - 1, value_make_obj(NewId(m)))
    IN IF table_has(s.objects[cls].methods, s.init_str)
       THEN obj_func_call(s, s.objects[cls].methods[s.init_str].v, argc)
       ELSE [m |-> s, ok |-> TRUE]

value_call_class(m, callee, argc) ==
    LET cls == callee.v
        a == allocate_obj(m, obj_instance_new(cls))
        s == stack_store(a, a.stack_top - argc - 1, value_make_obj(NewId(m)))
    IN IF table_has(s.objects[cls].methods, s.init_str)
       THEN obj_func_call(s, s.objects[cls].methods[s.init_str].v, argc)
       ELSE IF argc # 0
       THEN [m |-> raise_runtime_error(s), ok |-> FALSE]
       ELSE [m |-> s, ok |-> TRUE]

value_call(m, callee, argc, clk) ==
    IF value_is_obj(callee) /\ obj_get_type(m, callee) = "bound_method"
    THEN value_call_bound(m, callee, argc)
    ELSE IF value_is_obj(callee) /\ obj_get_type(m, callee) = "class"
    THEN value_call_class(m, callee, argc)
    ELSE IF value_is_obj(callee) /\ obj_get_type(m, callee) = "closure"
    THEN obj_func_call(m, callee.v, argc)
    ELSE IF value_is_obj(callee) /\ obj_get_type(m, callee) = "native_fn"
    THEN value_call_native(m, callee, argc, clk)
    ELSE [m |-> raise_runtime_error(m), ok |-> FALSE]

invoke_from_class(m, cls, name, argc) ==
    IF ~table_has(m.objects[cls].methods, name)
    THEN [m |-> raise_runtime_error(m), ok |-> FALSE]
    ELSE obj_func_call(m, m.objects[cls].methods[name].v, argc)

\* invoke that falls back to the class's methods when the field is not callable
invoke_fallback(m, name, argc, clk) ==
    LET receiver == vm_stack_peek(m, argc)
    IN IF ~obj_is_instance(m, receiver)
       THEN [m |-> raise_runtime_error(m), ok |-> FALSE]
       ELSE IF /\ table_has(m.objects[receiver.v].fields, name)
               /\ \E k \in {"closure", "bound_method", "class", "native_fn"} :
                      obj_is_kind(m, m.objects[receiver.v].fields[name], k)
       THEN value_call(stack_store(m, m.stack_top - argc - 1,
                                   m.objects[receiver.v].fields[name]),
                       m.objects[receiver.v].fields[name], argc, clk)
       ELSE invoke_from_class(m, m.objects[receiver.v].cls, name, argc)

invoke(m, name, argc, clk) ==
    LET receiver == vm_stack_peek(m, argc)
    IN IF ~obj_is_instance(m, receiver)
       THEN [m |-> raise_runtime_error(m), ok |-> FALSE]
       ELSE IF table_has(m.objects[receiver.v].fields, name)
       THEN value_call(stack_store(m, m.stack_top - argc - 1,
                                   m.objects[receiver.v].fields[name]),
                       m.objects[receiver.v].fields[name], argc, clk)
       ELSE invoke_from_class(m, m.objects[receiver.v].cls, name, argc)

(***************************************************************************)
(* Upvalues.                                                               *)
(***************************************************************************)
RECURSIVE capture_walk(_, _, _, _)
\* the while loop of upvalue_capture: <<prev_upvalue, upvalue>> when it ends
capture_walk(m, prev_upvalue, upvalue, local) ==
    IF upvalue # NULL /\ m.objects[upvalue].location > local
    THEN capture_walk(m, upvalue, m.objects[upvalue].next, local)
    ELSE <<prev_upvalue, upvalue>>

\* upvalue_capture that never reuses the upvalue it finds
upvalue_capture_fresh(m, local) ==
    LET w == capture_walk(m, NULL, m.open_upvalues, local)
        prev_upvalue == w[1]
        upvalue == w[2]
        a == allocate_obj(m, [obj_upvalue_new(local) EXCEPT !.next = upvalue])
        created_upvalue == NewId(m)
    IN IF prev_upvalue = NULL
       THEN [m |-> [a EXCEPT !.open_upvalues = created_upvalue],
             upvalue |-> created_upvalue]
       ELSE [m |-> [a EXCEPT !.objects[prev_upvalue].next = created_upvalue],
             upvalue |-> created_upvalue]

upvalue_capture(m, local) ==
    LET w == capture_walk(m, NULL, m.open_upvalues, local)
        prev_upvalue == w[1]
        upvalue == w[2]
        a == allocate_obj(m, [obj_upvalue_new(local) EXCEPT !.next = upvalue])
        created_upvalue == NewId(m)
    IN IF upvalue # NULL /\ m.objects[upvalue].location = local
       THEN [m |-> m, upvalue |-> upvalue]
       ELSE IF prev_upvalue = NULL
       THEN [m |-> [a EXCEPT !.open_upvalues = created_upvalue],
             upvalue |-> created_upvalue]
       ELSE [m |-> [a EXCEPT !.objects[prev_upvalue].next = created_upvalue],
             upvalue |-> created_upvalue]

RECURSIVE upvalue_close_until_nocopy(_, _)
\* upvalue_close_until that redirects the upvalue without copying the value
upvalue_close_until_nocopy(m, last) ==
    IF m.open_upvalues # NULL /\ m.objects[m.open_upvalues].location >= last
    THEN LET upvalue == m.open_upvalues
         IN upvalue_close_until_nocopy(
                [m EXCEPT !.objects[upvalue].location = CLOSED,
                          !.open_upvalues = m.objects[upvalue].next],
                last)
    ELSE m

RECURSIVE upvalue_close_until(_, _)
upvalue_close_until(m, last) ==
    IF m.open_upvalues # NULL /\ m.objects[m.open_upvalues].location >= last
    THEN LET upvalue == m.open_upvalues
         IN upvalue_close_until(
                [m EXCEPT !.objects[upvalue].closed =
                              stack_at(m, m.objects[upvalue].location),
                          !.objects[upvalue].location = CLOSED,
                          !.open_upvalues = m.objects[upvalue].next],
                last)
    ELSE m

\* *upvalue->location
upvalue_read(m, upvalue) ==
    IF m.objects[upvalue].location = CLOSED
    THEN m.objects[upvalue].closed
    ELSE stack_at(m, m.objects[upvalue].location)

\* *upvalue->location = value
upvalue_write(m, upvalue, value) ==
    IF m.objects[upvalue].location = CLOSED
    THEN [m EXCEPT !.objects[upvalue].closed = value]
    ELSE stack_store(m, m.objects[upvalue].location, value)

(***************************************************************************)
(* Classes, bound methods, strings.                                        *)
(***************************************************************************)
define_method(m, name) ==
    LET method == vm_stack_peek(m, 0)
        cls == vm_stack_peek(m, 1).v
        g == mem_realloc(m)
    IN vm_stack_pop([g EXCEPT !.objects[cls].methods = table_set(@, name, method)])

\* bind_method that pushes the method's closure without its receiver
bind_method_unbound(m, cls, name) ==
    IF ~table_has(m.objects[cls].methods, name)
    THEN [m |-> raise_runtime_error(m), ok |-> FALSE]
    ELSE [m |-> vm_stack_push(vm_stack_pop(m), m.objects[cls].methods[name]),
          ok |-> TRUE]

bind_method(m, cls, name) ==
    IF ~table_has(m.objects[cls].methods, name)
    THEN [m |-> raise_runtime_error(m), ok |-> FALSE]
    ELSE LET a == allocate_obj(m, obj_bound_method_new(vm_stack_peek(m, 0),
                                                       m.objects[cls].methods[name].v))
         IN [m |-> vm_stack_push(vm_stack_pop(a), value_make_obj(NewId(m))),
             ok |-> TRUE]

\* memcpy of a's characters, then of b's
concat_chars(a, b) == a \o b

string_concat(m) ==
    LET b == vm_stack_peek(m, 0).v
        a == vm_stack_peek(m, 1).v
        chars == mem_realloc(m)
        taken == obj_string_cpy(chars, concat_chars(m.objects[a].chars,
                                                    m.objects[b].chars))
    IN vm_stack_push(vm_stack_pop(vm_stack_pop(taken.m)), value_make_obj(taken.id))

(***************************************************************************)
(* vm_define_native_fn, vm_init.                                           *)
(***************************************************************************)
\* obj_as_string(vm.stack[0]): the address the value holds, whatever it is
obj_as_string(x) == x.v

\* vm_define_native_fn that pops only one of its two temporaries
vm_define_native_fn_onepop(m, name, function) ==
    LET s == obj_string_cpy(m, name)
        p1 == vm_stack_push(s.m, value_make_obj(s.id))
        a == allocate_obj(p1, obj_native_fn_new(function))
        p2 == vm_stack_push(a, value_make_obj(NewId(p1)))
        g == mem_realloc(p2)
        t == [g EXCEPT !.globals =
                 table_set(@, obj_as_string(g.stack[0]), g.stack[1])]
    IN vm_stack_pop(t)

vm_define_native_fn(m, name, function) ==
    LET s == obj_string_cpy(m, name)
        p1 == vm_stack_push(s.m, value_make_obj(s.id))
        a == allocate_obj(p1, obj_native_fn_new(function))
        p2 == vm_stack_push(a, value_make_obj(NewId(p1)))
        g == mem_realloc(p2)
        t == [g EXCEPT !.globals =
                 table_set(@, obj_as_string(g.stack[0]), g.stack[1])]
    IN vm_stack_pop(vm_stack_pop(t))

vm_init(m) ==
    LET r == vm_stack_reset(m)
        z == [r EXCEPT !.objects = <<>>, !.freed = {}, !.globals = EmptyTable,
                       !.init_str = NULL]
        i == obj_string_cpy(z, "init")
        n0 == [i.m EXCEPT !.init_str = i.id]
        n1 == vm_define_native_fn(n0, "clock", "clock")
        n2 == vm_define_native_fn(n1, "length", "length")
        n3 == vm_define_native_fn(n2, "append", "append")
    IN vm_define_native_fn(n3, "delete", "delete")

(***************************************************************************)
(* The compiler (external): what compile(source) leaves on the heap.  The  *)
(* script function and the functions nested in it share one constants      *)
(* pool, which holds the nested functions and the interned names.          *)
(***************************************************************************)
\* the functions declared by a script: arity and upvalue count of each
Protos ==
    <<[arity |-> 0, upvalue_count |-> 1], [arity |-> 1, upvalue_count |-> 0],
      [arity |-> 0, upvalue_count |-> 0]>>

\* the identifiers and string literals of a script
Names == <<"f", "g", "A", "B", "m">>

RECURSIVE intern_all(_, _, _)
intern_all(objs, freed, names) ==
    IF names = <<>> THEN objs
    ELSE LET hit == {i \in DOMAIN objs \ freed :
                        objs[i].kind = "string" /\ objs[i].chars = Head(names)}
         IN intern_all(IF hit = {} THEN Append(objs, obj_string_new(Head(names)))
                       ELSE objs,
                       freed, Tail(names))

StringIds(objs, freed) == {i \in DOMAIN objs \ freed : objs[i].kind = "string"}

compile(m) ==
    LET c == mem_realloc(m)
        strs == intern_all(c.objects, c.freed, Names)
        base == Len(strs)
        pool == (base + 1)..(base + Len(Protos)) \cup StringIds(strs, c.freed)
        fname == CHOOSE i \in StringIds(strs, c.freed) : strs[i].chars = "f"
        nested == [i \in 1..Len(Protos) |->
                      obj_function_new(Protos[i].arity, Protos[i].upvalue_count,
                                       fname, pool)]
        script == obj_function_new(0, 0, NULL, pool)
    IN [m |-> [c EXCEPT !.objects = strs \o nested \o <<script>>],
        function |-> base + Len(Protos) + 1]

\* vm_interpret up to the call of run()
vm_interpret(m) ==
    LET c == compile(m)
        p == vm_stack_push(c.m, value_make_obj(c.function))
        a == allocate_obj(p, obj_closure_new(c.function, 0))
        closure == NewId(p)
        q == vm_stack_push(vm_stack_pop(a), value_make_obj(closure))
    IN obj_func_call(q, closure, 0).m

(***************************************************************************)
(* The opcodes of run(): each handler maps the machine to the machine      *)
(* after it and says whether run() goes on (ok) or returns.                *)
(***************************************************************************)
\* CallFrame* frame = &vm.frames[vm.frame_count - 1]
cur_frame(m) == m.frames[m.frame_count - 1]

op_constant(m, constant) == [m |-> vm_stack_push(m, constant), ok |-> TRUE]

op_nil(m) == [m |-> vm_stack_push(m, value_make_nil), ok |-> TRUE]

op_pop(m) == [m |-> vm_stack_pop(m), ok |-> TRUE]

op_get_local(m, slot) ==
    [m |-> vm_stack_push(m, stack_at(m, cur_frame(m).slots + slot)), ok |-> TRUE]

op_set_local(m, slot) ==
    [m |-> stack_store(m, cur_frame(m).slots + slot, vm_stack_peek(m, 0)), ok |-> TRUE]

op_get_global(m, name) ==
    IF ~table_has(m.globals, name)
    THEN [m |-> raise_runtime_error(m), ok |-> FALSE]
    ELSE [m |-> vm_stack_push(m, m.globals[name]), ok |-> TRUE]

op_define_global(m, name) ==
    LET g == mem_realloc(m)
    IN [m |-> vm_stack_pop([g EXCEPT !.globals =
                                table_set(@, name, vm_stack_peek(m, 0))]),
        ok |-> TRUE]

\* OP_SET_GLOBAL without the table_delete of the name it has just added
op_set_global_nodelete(m, name) ==
    LET g == mem_realloc(m)
        t == [g EXCEPT !.globals = table_set(@, name, vm_stack_peek(m, 0))]
    IN IF table_is_new(m.globals, name)
       THEN [m |-> raise_runtime_error(t), ok |-> FALSE]
       ELSE [m |-> t, ok |-> TRUE]

op_set_global(m, name) ==
    LET g == mem_realloc(m)
        t == [g EXCEPT !.globals = table_set(@, name, vm_stack_peek(m, 0))]
    IN IF table_is_new(m.globals, name)
       THEN [m |-> raise_runtime_error([t EXCEPT !.globals = table_delete(@, name)]),
             ok |-> FALSE]
       ELSE [m |-> t, ok |-> TRUE]

op_get_upvalue(m, slot) ==
    [m |-> vm_stack_push(m, upvalue_read(m,
               m.objects[cur_frame(m).closure].upvalues[slot + 1])),
     ok |-> TRUE]

op_set_upvalue(m, slot) ==
    [m |-> upvalue_write(m, m.objects[cur_frame(m).closure].upvalues[slot + 1],
                         vm_stack_peek(m, 0)),
     ok |-> TRUE]

op_call(m, argc, clk) == value_call(m, vm_stack_peek(m, argc), argc, clk)

RECURSIVE closure_fill(_, _, _, _, _)
\* the loop of OP_CLOSURE over the (is_local, index) pairs, from pair i on
closure_fill(m, frame, closure, pairs, i) ==
    IF i > Len(pairs) THEN m
    ELSE IF pairs[i].is_local
    THEN LET c == upvalue_capture(m, frame.slots + pairs[i].index)
         IN closure_fill([c.m EXCEPT !.objects[closure].upvalues[i] = c.upvalue],
                         frame, closure, pairs, i + 1)
    ELSE closure_fill([m EXCEPT !.objects[closure].upvalues[i] =
                           m.objects[frame.closure].upvalues[pairs[i].index + 1]],
                      frame, closure, pairs, i + 1)

op_closure(m, function, pairs) ==
    LET a == allocate_obj(m, obj_closure_new(function,
                                 m.objects[function].upvalue_count))
        closure == NewId(m)
        p == vm_stack_push(a, value_make_obj(closure))
    IN [m |-> closure_fill(p, cur_frame(m), closure, pairs, 1), ok |-> TRUE]

\* OP_CLOSE_UPVALUE that pops the slot and closes nothing
op_close_upvalue_poponly(m) == [m |-> vm_stack_pop(m), ok |-> TRUE]

op_close_upvalue(m) ==
    [m |-> vm_stack_pop(upvalue_close_until(m, m.stack_top - 1)), ok |-> TRUE]

\* OP_RETURN: done says that run() returns INTERPRET_OK
op_return(m) ==
    LET frame == cur_frame(m)
        r == vm_stack_peek(m, 0)
        c == upvalue_close_until(vm_stack_pop(m), frame.slots)
        d == [c EXCEPT !.frame_count = @ - 1]
    IN IF d.frame_count = 0
       THEN [m |-> vm_stack_pop(d), ok |-> TRUE, done |-> TRUE]
       ELSE [m |-> vm_stack_push([d EXCEPT !.stack_top = frame.slots], r),
             ok |-> TRUE, done |-> FALSE]

\* OP_GET_PROPERTY that looks for a method before it looks for a field
op_get_property_method_first(m, name) ==
    LET instance == vm_stack_peek(m, 0).v
    IN IF ~obj_is_instance(m, vm_stack_peek(m, 0))
       THEN [m |-> raise_runtime_error(m), ok |-> FALSE]
       ELSE IF table_has(m.objects[m.objects[instance].cls].methods, name)
       THEN bind_method(m, m.objects[instance].cls, name)
       ELSE IF table_has(m.objects[instance].fields, name)
       THEN [m |-> vm_stack_push(vm_stack_pop(m), m.objects[instance].fields[name]),
             ok |-> TRUE]
       ELSE [m |-> raise_runtime_error(m), ok |-> FALSE]

op_get_property(m, name) ==
    LET instance == vm_stack_peek(m, 0).v
    IN IF ~obj_is_instance(m, vm_stack_peek(m, 0))
       THEN [m |-> raise_runtime_error(m), ok |-> FALSE]
       ELSE IF table_has(m.objects[instance].fields, name)
       THEN [m |-> vm_stack_push(vm_stack_pop(m), m.objects[instance].fields[name]),
             ok |-> TRUE]
       ELSE bind_method(m, m.objects[instance].cls, name)

op_set_property(m, name) ==
    LET instance == vm_stack_peek(m, 1).v
        g == mem_realloc(m)
        t == [g EXCEPT !.objects[instance].fields =
                 table_set(@, name, vm_stack_peek(m, 0))]
    IN IF ~obj_is_instance(m, vm_stack_peek(m, 1))
       THEN [m |-> raise_runtime_error(m), ok |-> FALSE]
       ELSE [m |-> vm_stack_push(vm_stack_pop(vm_stack_pop(t)), vm_stack_peek(m, 0)),
             ok |-> TRUE]

op_get_super(m, name) == bind_method(vm_stack_pop(m), vm_stack_peek(m, 0).v, name)

op_invoke(m, name, argc, clk) == invoke(m, name, argc, clk)

op_super_invoke(m, name, argc) ==
    invoke_from_class(vm_stack_pop(m), vm_stack_peek(m, 0).v, name, argc)

op_class(m, name) ==
    [m |-> vm_stack_push(allocate_obj(m, obj_class_new(name)), value_make_obj(NewId(m))),
     ok |-> TRUE]

op_inherit(m) ==
    LET superclass == vm_stack_peek(m, 1)
        subclass == vm_stack_peek(m, 0).v
        g == mem_realloc(m)
        t == table_append(m.objects[superclass.v].methods, m.objects[subclass].methods)
    IN IF ~obj_is_class(m, superclass)
       THEN [m |-> raise_runtime_error(m), ok |-> FALSE]
       ELSE [m |-> vm_stack_pop([g EXCEPT !.objects[superclass.v].methods = t.first,
                                          !.objects[subclass].methods = t.second]),
             ok |-> TRUE]

op_method(m, name) == [m |-> define_method(m, name), ok |-> TRUE]

op_add(m) ==
    IF obj_is_string(m, vm_stack_peek(m, 0)) /\ obj_is_string(m, vm_stack_peek(m, 1))
    THEN [m |-> string_concat(m), ok |-> TRUE]
    ELSE IF value_is_number(vm_stack_peek(m, 0)) /\ value_is_number(vm_stack_peek(m, 1))
    THEN [m |-> vm_stack_push(vm_stack_pop(vm_stack_pop(m)),
                    value_make_number(vm_stack_peek(m, 1).v + vm_stack_peek(m, 0).v)),
          ok |-> TRUE]
    ELSE [m |-> raise_runtime_error(m), ok |-> FALSE]

\* what value_as_number may read from a value that holds no number: the bytes
\* of another member of the union
ReinterpretedNumbers == {0, 1}

\* OP_NEGATE; punned is what value_as_number reads when the operand is not a
\* number
op_negate(m, punned) ==
    IF value_is_number(vm_stack_peek(m, 0))
    THEN [m |-> raise_runtime_error(m), ok |-> FALSE]
    ELSE [m |-> vm_stack_push(vm_stack_pop(m), value_make_number(0 - punned)),
          ok |-> TRUE]

\* a pointer that is not the address of any object
WILD == -2

\* obj_as_list(value): the coercion of the value to ObjList*, with no test of
\* its kind; the pointers it may give. A value that is no object holds no
\* pointer and its bytes read as one may be null or not.
obj_as_list(m, x) == IF value_is_obj(x) THEN {x.v} ELSE {NULL, WILD}

\* what reading or writing a list through a pointer to something else may
\* do: find the index out of range, read or write some memory and go on, or
\* end the process
Undefined ==
    {[k |-> "raise", v |-> value_make_nil], [k |-> "fault", v |-> value_make_nil]}
        \cup {[k |-> "value", v |-> x] : x \in {value_make_nil, value_make_number(0)}}

IsList(m, list) == list \in DOMAIN m.objects /\ m.objects[list].kind = "list"

obj_list_get(m, list, index) == m.objects[list].items[index + 1]

obj_list_set(m, list, index, item) ==
    [m EXCEPT !.objects[list].items[index + 1] = item]

\* OP_LIST_GETIDX; list is the pointer obj_as_list gave, ub what the accesses
\* through it do when it does not point to a list
op_list_getidx(m, list, ub) ==
    LET index == vm_stack_peek(m, 0)
        p == vm_stack_pop(vm_stack_pop(m))
        raised == [m |-> raise_runtime_error(p), ok |-> FALSE, fault |-> FALSE]
    IN IF list = NULL THEN raised
       ELSE IF ~value_is_number(index) THEN raised
       ELSE IF ~IsList(m, list)
       THEN IF ub.k = "raise" THEN raised
            ELSE [m |-> vm_stack_push(p, ub.v), ok |-> TRUE, fault |-> ub.k = "fault"]
       ELSE IF ~obj_list_is_valid_index(m.objects[list], double_to_int(index.v))
       THEN raised
       ELSE [m |-> vm_stack_push(p, obj_list_get(m, list, double_to_int(index.v))),
             ok |-> TRUE, fault |-> FALSE]

\* OP_LIST_SETIDX; as OP_LIST_GETIDX. A write through a pointer to something
\* else lands in memory that is no field of the model's objects.
op_list_setidx(m, list, ub) ==
    LET item == vm_stack_peek(m, 0)
        index == vm_stack_peek(m, 1)
        p == vm_stack_pop(vm_stack_pop(vm_stack_pop(m)))
        raised == [m |-> raise_runtime_error(p), ok |-> FALSE, fault |-> FALSE]
    IN IF list = NULL THEN raised
       ELSE IF ~value_is_number(index) THEN raised
       ELSE IF ~IsList(m, list)
       THEN IF ub.k = "raise" THEN raised
            ELSE [m |-> vm_stack_push(p, item), ok |-> TRUE, fault |-> ub.k = "fault"]
       ELSE IF ~obj_list_is_valid_index(m.objects[list], double_to_int(index.v))
       THEN raised
       ELSE [m |-> vm_stack_push(obj_list_set(p, list, double_to_int(index.v), item),
                                 item),
             ok |-> TRUE, fault |-> FALSE]

RECURSIVE list_fill_reversed(_, _, _)
\* the loop of OP_LIST_INIT run from peek(1) up to peek(item_count)
list_fill_reversed(m, list, i) ==
    IF i > 0
    THEN obj_list_append(list_fill_reversed(m, list, i - 1), list, vm_stack_peek(m, i))
    ELSE m

RECURSIVE list_fill(_, _, _)
\* for (int i = item_count; i > 0; --i) obj_list_append(list, vm_stack_peek(i))
list_fill(m, list, i) ==
    IF i > 0 THEN list_fill(obj_list_append(m, list, vm_stack_peek(m, i)), list, i - 1)
    ELSE m

RECURSIVE pop_times(_, _)
\* while (item_count-- > 0) vm_stack_pop()
pop_times(m, n) == IF n > 0 THEN pop_times(vm_stack_pop(m), n - 1) ELSE m

RECURSIVE list_fill_unrooted(_, _, _)
\* list_fill while the list is not on the stack
list_fill_unrooted(m, list, i) ==
    IF i > 0
    THEN list_fill_unrooted(obj_list_append(m, list, vm_stack_peek(m, i - 1)), list, i - 1)
    ELSE m

\* OP_LIST_INIT that pushes the list only after it has appended the items
op_list_init_unrooted(m, item_count) ==
    LET a == allocate_obj(m, obj_list_new)
        list == NewId(m)
        f == list_fill_unrooted(a, list, item_count)
    IN [m |-> vm_stack_push(pop_times(f, item_count), value_make_obj(list)),
        ok |-> TRUE]

op_list_init(m, item_count) ==
    LET a == allocate_obj(m, obj_list_new)
        list == NewId(m)
        p == vm_stack_push(a, value_make_obj(list))
        f == list_fill(p, list, item_count)
    IN [m |-> vm_stack_push(pop_times(vm_stack_pop(f), item_count),
                            value_make_obj(list)),
        ok |-> TRUE]

(***************************************************************************)
(* Bookkeeping of the captured variables, kept beside the machine: for     *)
(* every upvalue the slot it was created for (home), whether that variable *)
(* is still in scope (live), went out of scope by RETURN or CLOSE_UPVALUE  *)
(* (released, with the value it had then or was assigned since, and        *)
(* whether GET_UPVALUE has read it since), or was discarded with the       *)
(* stacks by a runtime error (orphan).                                     *)
(***************************************************************************)
shadow_orphan(sh) ==
    [u \in DOMAIN sh |->
        IF sh[u].st = "live" THEN [sh[u] EXCEPT !.st = "orphan"] ELSE sh[u]]

shadow_release(sh, m, from) ==
    [u \in DOMAIN sh |->
        IF sh[u].st = "live" /\ sh[u].home >= from
        THEN [home |-> sh[u].home, st |-> "released",
              val |-> stack_at(m, sh[u].home), read |-> FALSE]
        ELSE sh[u]]

shadow_assign(sh, u, value) ==
    [w \in DOMAIN sh |->
        IF w = u /\ sh[w].st = "released" THEN [sh[w] EXCEPT !.val = value] ELSE sh[w]]

\* GET_UPVALUE has read the variable after its release
shadow_read(sh, u) ==
    [w \in DOMAIN sh |->
        IF w = u /\ sh[w].st = "released" THEN [sh[w] EXCEPT !.read = TRUE] ELSE sh[w]]

\* the upvalues closure got for its is_local pairs, each with its home slot
shadow_capture(sh, m, frame, closure, pairs) ==
    LET got == {i \in DOMAIN pairs : pairs[i].is_local
                                     /\ m.objects[closure].upvalues[i] \notin DOMAIN sh}
        new == {m.objects[closure].upvalues[i] : i \in got}
        home(u) == frame.slots +
                   pairs[CHOOSE i \in got : m.objects[closure].upvalues[i] = u].index
    IN [u \in DOMAIN sh \cup new |->
           IF u \in DOMAIN sh THEN sh[u]
           ELSE [home |-> home(u), st |-> "live", val |-> value_make_nil,
                 read |-> FALSE]]

Captured(i) == \E u \in DOMAIN shadow : shadow[u].st = "live" /\ shadow[u].home = i

(***************************************************************************)
(* The state machine.                                                      *)
(***************************************************************************)
\* the zero-initialised global VM (frames[-1] is the memory before frames)
vm_zero(stress) ==
    [stack |-> [i \in 0..(STACK_MAX - 1) |-> value_make_nil],
     stack_top |-> 0,
     frames |-> [i \in (-1)..(FRAMES_MAX - 1) |-> [closure |-> NULL, slots |-> 0]],
     frame_count |-> 0,
     open_upvalues |-> NULL,
     globals |-> EmptyTable,
     init_str |-> NULL,
     objects |-> <<>>,
     freed |-> {},
     stress |-> stress,
     raised |-> FALSE]

InitWith(stress) ==
    /\ vm = vm_zero(stress)
    /\ status = "uninit"
    /\ result = "none"
    /\ shadow = [u \in {} |-> 0]
    /\ source = "none"

Init == InitWith(FALSE)

\* the dispatch loop is about to decode an instruction of frames[frame_count - 1]
Running == status = "running" /\ vm.frame_count >= 0

frame == cur_frame(vm)

\* the slots of the current frame in use
Height == vm.stack_top - frame.slots

CanPush(n) == vm.stack_top + n <= STACK_MAX

\* calls of vm_interpret so far: the script functions on the heap
Runs(m) ==
    Cardinality({i \in DOMAIN m.objects :
                    m.objects[i].kind = "function" /\ m.objects[i].name = NULL})

\* the strings vm_init and compile create
StaticChars ==
    {Names[i] : i \in DOMAIN Names} \cup {"init", "clock", "length", "append", "delete"}

\* objects allocated by the instructions so far
Dynamic(m) ==
    Cardinality({i \in DOMAIN m.objects :
                    \/ m.objects[i].kind \in {"closure", "upvalue", "class", "instance",
                                              "bound_method", "list"}
                    \/ /\ m.objects[i].kind = "string"
                       /\ m.objects[i].chars \notin StaticChars}) - Runs(m)

CanAlloc(n) == Dynamic(vm) + n <= MaxObjects

\* the top k values are temporaries: above slot 0, none a captured variable
Temps(k) ==
    /\ Height >= k + 1
    /\ \A i \in (vm.stack_top - k)..(vm.stack_top - 1) : ~Captured(i)

\* the string constant with these characters
NameId(chars) == table_find_string(vm, chars)

\* what the memory before vm.frames may hold, read as a CallFrame
StrayFrames(m) ==
    {[closure |-> c, slots |-> 0] :
        c \in {i \in DOMAIN m.objects : m.objects[i].kind = "closure"}}

\* the effect of a handler: run() goes on, or returns INTERPRET_RUNTIME_ERROR
Step(r, sh) ==
    /\ vm' = r.m
    /\ status' = IF r.ok THEN "running" ELSE "idle"
    /\ result' = IF r.ok THEN result ELSE "runtime_error"
    /\ shadow' = IF r.m.raised THEN shadow_orphan(sh) ELSE sh
    /\ UNCHANGED source

\* as Step, for the handlers that reload frame = &vm.frames[vm.frame_count - 1]
StepReload(r, sh) ==
    /\ IF r.ok /\ r.m.frame_count = 0
       THEN \E g \in StrayFrames(r.m) : vm' = [r.m EXCEPT !.frames[-1] = g]
       ELSE vm' = r.m
    /\ status' = IF r.ok THEN "running" ELSE "idle"
    /\ result' = IF r.ok THEN result ELSE "runtime_error"
    /\ shadow' = IF r.m.raised THEN shadow_orphan(sh) ELSE sh
    /\ UNCHANGED source

VmInit ==
    /\ status = "uninit"
    /\ vm' = vm_init(vm)
    /\ status' = "idle"
    /\ UNCHANGED <<result, shadow, source>>

\* a host call of vm_define_native_fn, between runs or from a native function
DefineNative(name, function) ==
    /\ status \in {"idle", "running"}
    /\ vm.stack_top >= 0
    /\ CanPush(2)
    /\ Cardinality({i \in DOMAIN vm.objects : vm.objects[i].kind = "native_fn"})
           < 4 + MaxDefines
    /\ vm' = vm_define_native_fn(vm, name, function)
    /\ UNCHANGED <<status, result, shadow, source>>

\* src: which script vm_interpret is given
Interpret(src) ==
    /\ status = "idle"
    /\ Runs(vm) < MaxRuns
    /\ vm' = vm_interpret([vm EXCEPT !.raised = FALSE])
    /\ status' = "running"
    /\ result' = "none"
    /\ source' = src
    /\ UNCHANGED shadow

\* vm_interpret called again on the VM an earlier call has returned from
InterpretAgain(src) ==
    /\ status = "idle"
    /\ result \in {"ok", "runtime_error"}
    /\ Runs(vm) <= MaxRuns
    /\ vm' = vm_interpret([vm EXCEPT !.raised = FALSE])
    /\ status' = "running"
    /\ result' = "none"
    /\ source' = src
    /\ UNCHANGED shadow

OP_CONSTANT(constant) ==
    /\ Running
    /\ CanPush(1)
    /\ Step(op_constant(vm, constant), shadow)

OP_NIL ==
    /\ Running
    /\ CanPush(1)
    /\ Step(op_nil(vm), shadow)

OP_POP ==
    /\ Running
    /\ Temps(1)
    /\ Step(op_pop(vm), shadow)

OP_GET_LOCAL(slot) ==
    /\ Running
    /\ CanPush(1)
    /\ slot < Height
    /\ Step(op_get_local(vm, slot), shadow)

OP_SET_LOCAL(slot) ==
    /\ Running
    /\ slot >= 1
    /\ slot < Height - 1
    /\ Step(op_set_local(vm, slot), shadow)

OP_GET_GLOBAL(chars) ==
    /\ Running
    /\ CanPush(1)
    /\ NameId(chars) # NULL
    /\ Step(op_get_global(vm, NameId(chars)), shadow)

OP_DEFINE_GLOBAL(chars) ==
    /\ Running
    /\ vm.frame_count = 1
    /\ Temps(1)
    /\ NameId(chars) # NULL
    /\ Step(op_define_global(vm, NameId(chars)), shadow)

OP_SET_GLOBAL(chars) ==
    /\ Running
    /\ Height >= 2
    /\ NameId(chars) # NULL
    /\ Step(op_set_global(vm, NameId(chars)), shadow)

\* the closure of the current frame, when the frame holds one
FrameClosure ==
    IF /\ vm.frame_count >= 0
       /\ frame.closure \in DOMAIN vm.objects
       /\ vm.objects[frame.closure].kind = "closure"
    THEN {vm.objects[frame.closure]}
    ELSE {}

\* the upvalue count of the current frame's closure
FrameUpvalues == IF FrameClosure = {} THEN 0 ELSE Len(vm.objects[frame.closure].upvalues)

OP_GET_UPVALUE(slot) ==
    /\ Running
    /\ CanPush(1)
    /\ slot < FrameUpvalues
    /\ Step(op_get_upvalue(vm, slot),
            shadow_read(shadow, vm.objects[frame.closure].upvalues[slot + 1]))

OP_SET_UPVALUE(slot) ==
    /\ Running
    /\ Height >= 2
    /\ slot < FrameUpvalues
    /\ Step(op_set_upvalue(vm, slot),
            shadow_assign(shadow, vm.objects[frame.closure].upvalues[slot + 1],
                          vm_stack_peek(vm, 0)))

\* the kind of a value
KindOf(m, x) ==
    IF value_is_obj(x) /\ x.v \in DOMAIN m.objects THEN m.objects[x.v].kind ELSE x.t

\* append may grow its list only up to MaxList
AppendFits(argc) ==
    LET callee == vm_stack_peek(vm, argc)
    IN (/\ obj_is_kind(vm, callee, "native_fn")
        /\ vm.objects[callee.v].function = "append"
        /\ argc = 2
        /\ obj_is_list(vm, native_arg(vm, argc, 0)))
       => Len(vm.objects[native_arg(vm, argc, 0).v].items) < MaxList

OP_CALL(argc, clk) ==
    /\ Running
    /\ Temps(argc + 1)
    /\ obj_is_class(vm, vm_stack_peek(vm, argc)) => CanAlloc(1)
    /\ AppendFits(argc)
    /\ StepReload(op_call(vm, argc, clk), shadow)

\* the functions of the current function's constants pool
FrameFunctions ==
    IF FrameClosure = {} THEN {}
    ELSE {f \in vm.objects[vm.objects[frame.closure].function].constants :
             vm.objects[f].kind = "function"}

\* those of them with this arity and this many upvalues
FunctionsOf(arity, upvalue_count) ==
    {f \in FrameFunctions : /\ vm.objects[f].arity = arity
                            /\ vm.objects[f].upvalue_count = upvalue_count}

\* the (is_local, index) pairs the compiler can emit here for a function
UpvaluePairs(function) ==
    LET one == {[is_local |-> TRUE, index |-> i] : i \in {j \in 0..STACK_MAX : j < Height}}
               \cup {[is_local |-> FALSE, index |-> i] :
                        i \in {j \in 0..1 : j < FrameUpvalues}}
    IN IF vm.objects[function].upvalue_count = 0 THEN {<<>>}
       ELSE IF vm.objects[function].upvalue_count = 1 THEN {<<x>> : x \in one}
       ELSE {<<x, y>> : x \in one, y \in one}

OP_CLOSURE(function, pairs) ==
    /\ Running
    /\ CanPush(1)
    /\ CanAlloc(1 + Len(pairs))
    /\ LET r == op_closure(vm, function, pairs)
       IN Step(r,
               shadow_capture(shadow, r.m, frame, NewId(mem_realloc(vm)), pairs))

OP_CLOSE_UPVALUE ==
    /\ Running
    /\ Height >= 2
    /\ Step(op_close_upvalue(vm),
            shadow_release(shadow, vm, vm.stack_top - 1))

OP_RETURN ==
    /\ Running
    /\ Height >= 2
    /\ vm.frame_count = 1 => Height = 2
    /\ LET r == op_return(vm)
       IN /\ vm' = r.m
          /\ status' = IF r.done THEN "idle" ELSE "running"
          /\ result' = IF r.done THEN "ok" ELSE result
          /\ shadow' = shadow_release(shadow, vm, frame.slots)
          /\ UNCHANGED source

OP_GET_PROPERTY(chars) ==
    /\ Running
    /\ Temps(1)
    /\ CanAlloc(1)
    /\ NameId(chars) # NULL
    /\ Step(op_get_property(vm, NameId(chars)), shadow)

OP_SET_PROPERTY(chars) ==
    /\ Running
    /\ Temps(2)
    /\ NameId(chars) # NULL
    /\ Step(op_set_property(vm, NameId(chars)), shadow)

OP_INVOKE(chars, argc, clk) ==
    /\ Running
    /\ Temps(argc + 1)
    /\ CanAlloc(1)
    /\ NameId(chars) # NULL
    /\ StepReload(op_invoke(vm, NameId(chars), argc, clk), shadow)

OP_CLASS(chars) ==
    /\ Running
    /\ CanPush(1)
    /\ CanAlloc(1)
    /\ NameId(chars) # NULL
    /\ Step(op_class(vm, NameId(chars)), shadow)

\* the compiler pushes the class being declared right before OP_INHERIT
OP_INHERIT ==
    /\ Running
    /\ Temps(2)
    /\ obj_is_class(vm, vm_stack_peek(vm, 0))
    /\ Step(op_inherit(vm), shadow)

\* the compiler emits OP_METHOD with the method's closure on top of its class
OP_METHOD(chars) ==
    /\ Running
    /\ Temps(2)
    /\ obj_is_kind(vm, vm_stack_peek(vm, 0), "closure")
    /\ obj_is_class(vm, vm_stack_peek(vm, 1))
    /\ NameId(chars) # NULL
    /\ Step(op_method(vm, NameId(chars)), shadow)

OP_ADD ==
    /\ Running
    /\ Temps(2)
    /\ CanAlloc(1)
    /\ (obj_is_string(vm, vm_stack_peek(vm, 0)) /\ obj_is_string(vm, vm_stack_peek(vm, 1)))
          => Len(vm.objects[vm_stack_peek(vm, 0).v].chars)
               + Len(vm.objects[vm_stack_peek(vm, 1).v].chars) <= MaxChars
    /\ (value_is_number(vm_stack_peek(vm, 0)) /\ value_is_number(vm_stack_peek(vm, 1)))
          => vm_stack_peek(vm, 0).v + vm_stack_peek(vm, 1).v <= MaxChars
    /\ Step(op_add(vm), shadow)

OP_LIST_INIT(item_count) ==
    /\ Running
    /\ Temps(item_count)
    /\ item_count <= MaxList
    /\ CanPush(1)
    /\ CanAlloc(1)
    /\ Step(op_list_init(vm, item_count), shadow)

OP_NEGATE ==
    /\ Running
    /\ Temps(1)
    /\ \E punned \in ReinterpretedNumbers : Step(op_negate(vm, punned), shadow)

\* the effect of a handler that may end the process
StepOrFault(r, sh) ==
    IF r.fault
    THEN /\ vm' = r.m
         /\ status' = "crashed"
         /\ UNCHANGED <<result, shadow, source>>
    ELSE Step(r, sh)

OP_LIST_GETIDX ==
    /\ Running
    /\ Temps(2)
    /\ \E list \in obj_as_list(vm, vm_stack_peek(vm, 1)) : \E ub \in Undefined :
           StepOrFault(op_list_getidx(vm, list, ub), shadow)

OP_LIST_SETIDX ==
    /\ Running
    /\ Temps(3)
    /\ \E list \in obj_as_list(vm, vm_stack_peek(vm, 2)) : \E ub \in Undefined :
           StepOrFault(op_list_setidx(vm, list, ub), shadow)

\* the compiler emits OP_GET_SUPER with the superclass (the local "super")
\* on top of the receiver
OP_GET_SUPER(chars) ==
    /\ Running
    /\ Temps(2)
    /\ CanAlloc(1)
    /\ obj_is_class(vm, vm_stack_peek(vm, 0))
    /\ NameId(chars) # NULL
    /\ Step(op_get_super(vm, NameId(chars)), shadow)

\* the compiler emits OP_SUPER_INVOKE with the superclass on top of the
\* arguments and the receiver
OP_SUPER_INVOKE(chars, argc) ==
    /\ Running
    /\ Temps(argc + 2)
    /\ obj_is_class(vm, vm_stack_peek(vm, 0))
    /\ NameId(chars) # NULL
    /\ StepReload(op_super_invoke(vm, NameId(chars), argc), shadow)

\* the dispatch loop decodes from memory outside vm.frames and the process dies
Fault ==
    /\ status = "running"
    /\ vm.frame_count <= 0
    /\ status' = "crashed"
    /\ UNCHANGED <<vm, result, shadow, source>>

(***************************************************************************)
(* Calls, natives and the host interface.                                  *)
(***************************************************************************)
Next ==
    \/ VmInit
    \/ Interpret("script")
    \/ OP_CONSTANT(value_make_number(1))
    \/ OP_POP
    \/ OP_GET_GLOBAL("length")
    \/ \E argc \in 0..MaxArgc : OP_CALL(argc, 0)
    \/ \E function \in FunctionsOf(1, 0) : OP_CLOSURE(function, <<>>)
    \/ OP_RETURN
    \/ Fault

Spec == Init /\ [][Next]_vars

(***************************************************************************)
(* Closures and upvalues.                                                  *)
(***************************************************************************)
NextUpvalues ==
    \/ VmInit
    \/ Interpret("script")
    \/ OP_CONSTANT(value_make_number(1))
    \/ OP_POP
    \/ \E slot \in 1..2 : OP_SET_LOCAL(slot)
    \/ OP_GET_UPVALUE(0)
    \/ OP_SET_UPVALUE(0)
    \/ OP_CALL(0, 0)
    \/ \E function \in FunctionsOf(0, 0) \cup FunctionsOf(0, 1) :
           \E pairs \in UpvaluePairs(function) : OP_CLOSURE(function, pairs)
    \/ OP_CLOSE_UPVALUE
    \/ OP_RETURN

SpecUpvalues == Init /\ [][NextUpvalues]_vars

(***************************************************************************)
(* Classes and methods.                                                    *)
(***************************************************************************)
NextClasses ==
    \/ VmInit
    \/ Interpret("script")
    \/ OP_POP
    \/ \E slot \in 1..(STACK_MAX - 1) : OP_GET_LOCAL(slot)
    \/ \E chars \in {"A", "B"} : OP_CLASS(chars)
    \/ OP_INHERIT
    \/ OP_METHOD("m")
    \/ OP_GET_PROPERTY("m")
    \/ OP_INVOKE("m", 0, 0)
    \/ OP_CALL(0, 0)
    \/ \E function \in FunctionsOf(0, 0) : OP_CLOSURE(function, <<>>)
    \/ OP_RETURN

SpecClasses == Init /\ [][NextClasses]_vars

(***************************************************************************)
(* The allocation sites under a collector that runs at every allocation.   *)
(***************************************************************************)
InitGC == InitWith(TRUE)

NextGC ==
    \/ VmInit
    \/ \E src \in {"strings", "closures", "classes"} : Interpret(src)
    \/ DefineNative("g", "clock")
    \/ OP_POP
    \/ OP_RETURN
    \/ source = "strings" /\ OP_CONSTANT(value_make_obj(NameId("f")))
    \/ source = "strings" /\ OP_ADD
    \/ source = "strings" /\ OP_LIST_INIT(1)
    \/ source = "closures" /\ \E function \in FunctionsOf(0, 1) :
           \E pairs \in UpvaluePairs(function) : OP_CLOSURE(function, pairs)
    \/ source = "closures" /\ OP_CALL(0, 0)
    \/ source = "classes" /\ OP_CLASS("A")
    \/ source = "classes" /\ \E function \in FunctionsOf(0, 0) :
           OP_CLOSURE(function, <<>>)
    \/ source = "classes" /\ OP_METHOD("m")
    \/ source = "classes" /\ OP_CALL(0, 0)
    \/ source = "classes" /\ OP_GET_PROPERTY("m")

SpecGC == InitGC /\ [][NextGC]_vars

(***************************************************************************)
(* The host interface: vm_init, vm_define_native_fn, vm_interpret.         *)
(***************************************************************************)
NextHost ==
    \/ VmInit
    \/ \E name \in {"g", "clock"} : DefineNative(name, "length")
    \/ Interpret("script")
    \/ OP_CONSTANT(value_make_number(1))
    \/ OP_POP
    \/ \E chars \in {"g", "clock"} : OP_GET_GLOBAL(chars)
    \/ OP_RETURN

SpecHost == Init /\ [][NextHost]_vars

(***************************************************************************)
(* Lists and numbers: LIST_INIT, LIST_GETIDX, LIST_SETIDX, NEGATE.         *)
(***************************************************************************)
NextLists ==
    \/ VmInit
    \/ \E src \in {"negate", "lists", "index"} : Interpret(src)
    \/ OP_CONSTANT(value_make_number(2))
    \/ OP_POP
    \/ source = "negate" /\ OP_NIL
    \/ source = "negate" /\ OP_NEGATE
    \/ source # "negate" /\ OP_CONSTANT(value_make_number(0))
    \/ source = "lists" /\ CanAlloc(3)
          /\ \E item_count \in 0..MaxList : OP_LIST_INIT(item_count)
    \/ source = "index" /\ OP_CONSTANT(value_make_obj(NameId("f")))
    \/ source = "index" /\ CanAlloc(3) /\ OP_LIST_INIT(1)
    \/ source = "index" /\ OP_LIST_GETIDX
    \/ source = "index" /\ OP_LIST_SETIDX

SpecLists == Init /\ [][NextLists]_vars

(***************************************************************************)
(* Fields and methods of instances: SET_PROPERTY, GET_PROPERTY.            *)
(***************************************************************************)
NextProperties ==
    \/ VmInit
    \/ Interpret("script")
    \/ OP_CONSTANT(value_make_number(1))
    \/ OP_POP
    \/ OP_GET_LOCAL(1)
    \/ OP_CLASS("A")
    \/ \E function \in FunctionsOf(0, 0) : OP_CLOSURE(function, <<>>)
    \/ OP_METHOD("m")
    \/ OP_CALL(0, 0)
    \/ OP_SET_PROPERTY("m")
    \/ \E chars \in {"m", "f"} : OP_GET_PROPERTY(chars)

SpecProperties == Init /\ [][NextProperties]_vars

(***************************************************************************)
(* Closures that outlive a run: stored in a global, then the run ends.     *)
(***************************************************************************)
NextLifecycle ==
    \/ VmInit
    \/ Interpret("script")
    \/ OP_CONSTANT(value_make_number(1))
    \/ OP_POP
    \/ \E function \in FunctionsOf(0, 1) :
           \E pairs \in UpvaluePairs(function) : OP_CLOSURE(function, pairs)
    \/ OP_DEFINE_GLOBAL("f")
    \/ \E chars \in {"f", "g"} : OP_GET_GLOBAL(chars)
    \/ OP_CALL(0, 0)
    \/ OP_GET_UPVALUE(0)
    \/ OP_CLOSE_UPVALUE
    \/ OP_RETURN

SpecLifecycle == Init /\ [][NextLifecycle]_vars

(***************************************************************************)
(* Successive calls of vm_interpret on one VM.                             *)
(***************************************************************************)
NextReentry ==
    \/ VmInit
    \/ Interpret("script")
    \/ InterpretAgain("script")
    \/ OP_CONSTANT(value_make_number(1))
    \/ OP_POP
    \/ \E function \in FunctionsOf(0, 1) :
           \E pairs \in UpvaluePairs(function) : OP_CLOSURE(function, pairs)
    \/ OP_DEFINE_GLOBAL("f")
    \/ \E chars \in {"f", "g"} : OP_GET_GLOBAL(chars)
    \/ OP_RETURN

SpecReentry == Init /\ [][NextReentry]_vars

(***************************************************************************)
(* Global variables: declared by DEFINE_GLOBAL, assigned by SET_GLOBAL.    *)
(***************************************************************************)
NextGlobals ==
    \/ VmInit
    \/ Interpret("script")
    \/ \E n \in 1..2 : OP_CONSTANT(value_make_number(n))
    \/ OP_POP
    \/ \E chars \in {"f", "g"} : OP_DEFINE_GLOBAL(chars)
    \/ \E chars \in {"f", "g", "clock"} : OP_SET_GLOBAL(chars)
    \/ \E chars \in {"f", "g", "clock"} : OP_GET_GLOBAL(chars)

SpecGlobals == Init /\ [][NextGlobals]_vars

(***************************************************************************)
(* Calls of closures, bound methods, classes, fields and methods.          *)
(***************************************************************************)
NextCalls ==
    \/ VmInit
    \/ \E src \in {"closures", "methods", "init", "super", "fields"} : Interpret(src)
    \/ OP_CONSTANT(value_make_number(1))
    \/ OP_POP
    \/ OP_RETURN
    \/ \E argc \in 0..MaxArgc : OP_CALL(argc, 0)
    \/ source \in {"closures", "methods", "init"}
          /\ \E function \in FunctionsOf(1, 0) : OP_CLOSURE(function, <<>>)
    \/ source \in {"closures", "super", "fields"}
          /\ \E function \in FunctionsOf(0, 0) : OP_CLOSURE(function, <<>>)
    \/ source # "closures" /\ OP_CLASS("A")
    \/ source \in {"methods", "super", "fields"} /\ OP_METHOD("m")
    \/ source = "init" /\ OP_METHOD("init")
    \/ source = "methods" /\ OP_GET_PROPERTY("m")
    \/ source \in {"super", "fields"} /\ OP_GET_LOCAL(1)
    \/ source = "super" /\ \E argc \in 0..MaxArgc : OP_SUPER_INVOKE("m", argc)
    \/ source = "fields" /\ OP_SET_PROPERTY("m")
    \/ source \in {"methods", "fields"} /\ \E argc \in 0..MaxArgc : OP_INVOKE("m", argc, 0)

SpecCalls == Init /\ [][NextCalls]_vars

(***************************************************************************)
(* The claims.                                                             *)
(***************************************************************************)

\* C1: after every instruction, an erroring native CALL included, the stack
\* pointer is within the stack: 0 <= stack_top <= STACK_MAX.
StackTopInBounds == 0 <= vm.stack_top /\ vm.stack_top <= STACK_MAX

\* C2: after every instruction 0 <= frame_count <= FRAMES_MAX.
FrameCountInBounds == 0 <= vm.frame_count /\ vm.frame_count <= FRAMES_MAX

\* C4: once a runtime error has been raised in a run, opcode or native, the
\* run is over: interpret has returned runtime-error, no instruction follows,
\* and the stack, the frames and the open-upvalue list are empty.
ErrorEndsRun ==
    vm.raised =>
        /\ status = "idle"
        /\ result = "runtime_error"
        /\ vm.stack_top = 0
        /\ vm.frame_count = 0
        /\ vm.open_upvalues = NULL

\* C10: a completed call leaves one result in place of the callee and its
\* arguments: a native CALL pops argc + 1 values, pushes the result and keeps
\* frame_count; RETURN to a caller sets stack_top to the callee's slots + 1
\* with the result on top and makes the caller's frame current; RETURN of the
\* script pops the script closure and interpret returns OK.
CallLeavesOneResult ==
    [][/\ \A argc \in 0..MaxArgc :
            (OP_CALL(argc, 0) /\ obj_is_kind(vm, vm_stack_peek(vm, argc), "native_fn"))
                => /\ vm'.stack_top = vm.stack_top - argc
                   /\ vm'.frame_count = vm.frame_count
                   /\ status' = "running"
       /\ (OP_RETURN /\ vm.frame_count > 1)
            => /\ vm'.stack_top = frame.slots + 1
               /\ vm'.stack[frame.slots] = vm_stack_peek(vm, 0)
               /\ vm'.frame_count = vm.frame_count - 1
               /\ status' = "running"
       /\ (OP_RETURN /\ vm.frame_count = 1)
            => /\ vm'.stack_top = 0
               /\ vm'.frame_count = 0
               /\ status' = "idle"
               /\ result' = "ok"]_vars

\* the global bound to these characters, or the empty set
GlobalOf(m, chars) ==
    {m.globals[k] : k \in {j \in DOMAIN m.globals :
                              /\ j \in DOMAIN m.objects
                              /\ m.objects[j].kind = "string"
                              /\ m.objects[j].chars = chars}}

\* the value is a native-function object wrapping function
IsNativeOf(m, x, function) ==
    obj_is_kind(m, x, "native_fn") /\ m.objects[x.v].function = function

\* C8: define_native(name, fn), whatever the stack holds, leaves globals[name]
\* bound to a native-function object wrapping fn and leaves the stack's height
\* and contents as they were.
DefineNativeBinds ==
    [][\A name \in {"g", "clock"} :
          DefineNative(name, "length")
              => /\ \E x \in GlobalOf(vm', name) : IsNativeOf(vm', x, "length")
                 /\ vm'.stack_top = vm.stack_top
                 /\ \A i \in 0..(vm.stack_top - 1) : vm'.stack[i] = vm.stack[i]]_vars

\* the natives vm_init registers
Natives == {"clock", "length", "append", "delete"}

\* the state vm_init leaves
InitState(m) ==
    /\ Cardinality(DOMAIN m.globals) = 4
    /\ \A chars \in Natives :
          /\ Cardinality(GlobalOf(m, chars)) = 1
          /\ \A x \in GlobalOf(m, chars) : IsNativeOf(m, x, chars)
    /\ \A a, b \in Natives : a # b => GlobalOf(m, a) # GlobalOf(m, b)
    /\ m.stack_top = 0
    /\ m.frame_count = 0
    /\ m.open_upvalues = NULL

\* C9: after init() the globals are exactly clock, length, append and delete,
\* each bound to its own native function, and the stack, the frames and the
\* open-upvalue list are empty.
InitRegistersFour == [][VmInit => InitState(vm')]_vars

\* init() has just returned
C9Witness == status = "idle" /\ Runs(vm) = 0 /\ InitState(vm)

\* the open upvalues, head first
OpenUpvalues == OpenList(vm.objects, vm.open_upvalues)

\* C3: the open-upvalue list is sorted by strictly decreasing slot, so no two
\* open upvalues refer to the same slot, and a capture of a slot that already
\* has an open upvalue returns it: no variable in scope has two upvalues.
OpenUpvaluesSorted ==
    /\ \A i \in 1..Len(OpenUpvalues) :
          /\ vm.objects[OpenUpvalues[i]].kind = "upvalue"
          /\ vm.objects[OpenUpvalues[i]].location >= 0
    /\ \A i \in 1..(Len(OpenUpvalues) - 1) :
          vm.objects[OpenUpvalues[i]].location > vm.objects[OpenUpvalues[i + 1]].location
    /\ \A u, w \in DOMAIN shadow :
          (shadow[u].st = "live" /\ shadow[w].st = "live"
              /\ shadow[u].home = shadow[w].home) => u = w
    /\ \A u \in DOMAIN shadow :
          shadow[u].st = "live" =>
              \E i \in 1..Len(OpenUpvalues) :
                  OpenUpvalues[i] = u /\ vm.objects[u].location = shadow[u].home

\* two closures have captured two variables that are both still in scope
C3Witness ==
    /\ Len(OpenUpvalues) >= 2
    /\ \A i \in 1..2 :
          \E c \in DOMAIN vm.objects :
              /\ vm.objects[c].kind = "closure"
              /\ vm.objects[c].upvalues = <<OpenUpvalues[i]>>

\* the upvalue GET_UPVALUE slot reads in the current frame
UpvalueAt(slot) == vm.objects[frame.closure].upvalues[slot + 1]

\* C5: GET_UPVALUE of a captured variable whose frame has returned, or that
\* CLOSE_UPVALUE has closed, yields the value the variable held when it was
\* closed or the latest value SET_UPVALUE wrote since, and reads no stack slot.
ClosedUpvalueKeepsValue ==
    [][\A slot \in 0..1 :
          (/\ OP_GET_UPVALUE(slot)
           /\ UpvalueAt(slot) \in DOMAIN shadow
           /\ shadow[UpvalueAt(slot)].st = "released")
              => /\ vm.objects[UpvalueAt(slot)].location = CLOSED
                 /\ vm'.stack[vm.stack_top] = shadow[UpvalueAt(slot)].val]_vars

\* a closure has read a variable that left scope holding a number
C5Witness ==
    \E u \in DOMAIN shadow :
        /\ shadow[u].st = "released"
        /\ shadow[u].read
        /\ value_is_number(shadow[u].val)

\* the closure a method name resolves to on a class: the lookup of
\* bind_method and invoke_from_class in the class's method table
Resolve(m, cls, name) ==
    IF table_has(m.objects[cls].methods, name)
    THEN {m.objects[cls].methods[name]}
    ELSE {}

\* C6: after INHERIT with superclass A at peek(1) and subclass B at peek(0),
\* every method of A resolves on B, that is through GET_PROPERTY or INVOKE on
\* an instance of B, to A's closure for that name.
InheritedMethodsResolve ==
    [][(OP_INHERIT /\ obj_is_class(vm, vm_stack_peek(vm, 1)))
          => \A name \in DOMAIN vm.objects[vm_stack_peek(vm, 1).v].methods :
                 Resolve(vm', vm_stack_peek(vm, 0).v, name) =
                     {vm.objects[vm_stack_peek(vm, 1).v].methods[name]}]_vars

\* C7: a collection at an allocation never frees an object the engine still
\* uses: nothing reachable from the stack, the frames' closures, the open
\* upvalues, the globals or the init string has been swept.
RootsNeverSwept == Reachable(vm, {}) \cap vm.freed = {}

\* a collection has swept garbage and spared the list OP_LIST_INIT was filling
C7Witness ==
    /\ vm.freed # {}
    /\ \E i \in Reachable(vm, {}) :
          vm.objects[i].kind = "list" /\ Len(vm.objects[i].items) = 1

\* the closure a call of callee runs, if it runs one
CallTarget(m, callee) ==
    IF obj_is_kind(m, callee, "closure") THEN {callee.v}
    ELSE IF obj_is_kind(m, callee, "bound_method") THEN {m.objects[callee.v].method}
    ELSE IF obj_is_class(m, callee) /\ table_has(m.objects[callee.v].methods, m.init_str)
    THEN {m.objects[callee.v].methods[m.init_str].v}
    ELSE {}

\* the closure INVOKE name runs on the receiver, if it runs one
InvokeTarget(m, receiver, name) ==
    IF ~obj_is_instance(m, receiver) THEN {}
    ELSE IF table_has(m.objects[receiver.v].fields, name)
    THEN CallTarget(m, m.objects[receiver.v].fields[name])
    ELSE {x.v : x \in Resolve(m, m.objects[receiver.v].cls, name)}

\* this step called closure with argc arguments: it pushed the frame, or it
\* raised the error and pushed nothing
FramePushedIff(closure, argc, top) ==
    IF /\ argc = vm.objects[vm.objects[closure].function].arity
       /\ vm.frame_count < FRAMES_MAX
    THEN /\ status' = "running"
         /\ vm'.frame_count = vm.frame_count + 1
         /\ vm'.frames[vm.frame_count] =
                [closure |-> closure, slots |-> vm'.stack_top - argc - 1]
         /\ vm'.stack_top = top
    ELSE /\ status' = "idle"
         /\ result' = "runtime_error"
         /\ vm'.raised
         /\ vm'.frame_count = 0

\* C11: a call of a closure with argc arguments pushes a frame, with slots =
\* stack_top - argc - 1, if and only if argc is the function's arity and
\* frame_count < FRAMES_MAX, and raises a runtime error otherwise; the same
\* for a closure reached through a bound method, a class initializer, INVOKE
\* and SUPER_INVOKE.
ArityCheckedUniformly ==
    [][\A argc \in 0..MaxArgc :
          /\ OP_CALL(argc, 0) =>
                \A c \in CallTarget(vm, vm_stack_peek(vm, argc)) :
                    FramePushedIff(c, argc, vm.stack_top)
          /\ OP_INVOKE("m", argc, 0) =>
                \A c \in InvokeTarget(vm, vm_stack_peek(vm, argc), NameId("m")) :
                    FramePushedIff(c, argc, vm.stack_top)
          /\ OP_SUPER_INVOKE("m", argc) =>
                \A x \in Resolve(vm, vm_stack_peek(vm, 0).v, NameId("m")) :
                    FramePushedIff(x.v, argc, vm.stack_top - 1)]_vars

\* the frames are full and frames were pushed for a closure, a bound method,
\* and a method reached by name
C11Witness ==
    /\ vm.frame_count = FRAMES_MAX
    /\ status = "running"
    /\ ~vm.raised
    /\ vm.objects[vm.objects[vm.frames[1].closure].function].arity = 1
    /\ vm.frames[1].slots >= 1
    /\ obj_is_instance(vm, vm.stack[vm.frames[1].slots])

\* the step raised the runtime error and ended the run
RaisedError ==
    /\ status' = "idle"
    /\ result' = "runtime_error"
    /\ vm'.raised
    /\ vm'.frame_count = 0
    /\ vm'.stack_top = 0

\* the step left, in the slot at depth argc, a new instance of cls
NewInstanceAt(cls, argc) ==
    LET i == vm'.stack[vm.stack_top - argc - 1]
    IN /\ vm'.stack_top = vm.stack_top
       /\ i = value_make_obj(Len(vm.objects) + 1)
       /\ Len(vm'.objects) = Len(vm.objects) + 1
       /\ vm'.objects[i.v] = [kind |-> "instance", cls |-> cls, fields |-> EmptyTable]
       /\ \A k \in 0..(STACK_MAX - 1) :
              k # vm.stack_top - argc - 1 => vm'.stack[k] = vm.stack[k]

\* C12: CALL on a class puts a new instance in the callee's slot; with an
\* initializer, that closure is called with the argc arguments and the
\* instance as slot 0; without one the call succeeds, pushing no frame,
\* exactly when argc = 0 and is a runtime error otherwise. CALL on a value
\* that is not callable is a runtime error.
ClassCallConstructs ==
    [][\A argc \in 0..MaxArgc :
          OP_CALL(argc, 0) =>
              LET callee == vm_stack_peek(vm, argc)
              IN /\ obj_is_class(vm, callee) =>
                       IF table_has(vm.objects[callee.v].methods, vm.init_str)
                       THEN \A c \in CallTarget(vm, callee) :
                                /\ FramePushedIff(c, argc, vm.stack_top)
                                /\ status' = "running" =>
                                       /\ NewInstanceAt(callee.v, argc)
                                       /\ vm'.frames[vm.frame_count].slots
                                              = vm.stack_top - argc - 1
                       ELSE IF argc = 0
                       THEN /\ status' = "running"
                            /\ ~vm'.raised
                            /\ vm'.frame_count = vm.frame_count
                            /\ vm'.frames = vm.frames
                            /\ NewInstanceAt(callee.v, argc)
                       ELSE RaisedError
                 /\ KindOf(vm, callee) \notin
                        {"closure", "bound_method", "class", "native_fn"}
                       => RaisedError]_vars

\* a class without initializer was called with no arguments and its instance
\* sits under the top of the stack of a running script
C12Witness ==
    /\ source = "methods"
    /\ status = "running"
    /\ ~vm.raised
    /\ vm.stack_top >= 3
    /\ obj_is_instance(vm, vm.stack[1])
    /\ obj_is_class(vm, vm.stack[2])

Callable(m, x) == KindOf(m, x) \in {"closure", "bound_method", "class", "native_fn"}

\* the step called the method name of cls with the receiver left as slot 0,
\* or raised when cls has no such method
MethodInvoked(cls, name, argc) ==
    IF Resolve(vm, cls, name) = {} THEN RaisedError
    ELSE \A x \in Resolve(vm, cls, name) :
             /\ FramePushedIff(x.v, argc, vm.stack_top)
             /\ status' = "running" =>
                    vm'.stack[vm.stack_top - argc - 1] = vm_stack_peek(vm, argc)

\* the step stored the field's value x in the receiver's slot and called it
FieldInvoked(x, argc) ==
    /\ ~Callable(vm, x) => RaisedError
    /\ obj_is_kind(vm, x, "closure") =>
           /\ FramePushedIff(x.v, argc, vm.stack_top)
           /\ status' = "running" => vm'.stack[vm.stack_top - argc - 1] = x

\* C13 as stated: INVOKE on an instance calls the field name when its value is
\* callable and otherwise, the field being absent or not callable, calls the
\* method name of the instance's class; a receiver that is not an instance is
\* a runtime error.
InvokeFallsBackToMethod ==
    [][\A argc \in 0..MaxArgc :
          OP_INVOKE("m", argc, 0) =>
              LET receiver == vm_stack_peek(vm, argc)
                  name == NameId("m")
              IN IF ~obj_is_instance(vm, receiver) THEN RaisedError
                 ELSE LET i == vm.objects[receiver.v]
                      IN IF table_has(i.fields, name) /\ Callable(vm, i.fields[name])
                         THEN FieldInvoked(i.fields[name], argc)
                         ELSE MethodInvoked(i.cls, name, argc)]_vars

\* C13, amended: INVOKE on an instance calls the field name whenever the
\* instance has that field, a runtime error when its value is not callable
\* whatever the class defines, and calls the method name of the instance's
\* class only when there is no such field; a receiver that is not an instance
\* is a runtime error.
InvokeCallsFieldFirst ==
    [][\A argc \in 0..MaxArgc :
          OP_INVOKE("m", argc, 0) =>
              LET receiver == vm_stack_peek(vm, argc)
                  name == NameId("m")
              IN IF ~obj_is_instance(vm, receiver) THEN RaisedError
                 ELSE LET i == vm.objects[receiver.v]
                      IN IF table_has(i.fields, name)
                         THEN FieldInvoked(i.fields[name], argc)
                         ELSE MethodInvoked(i.cls, name, argc)]_vars

\* a run ended by the error with, in slot 1, an instance whose field m is not
\* callable while its class defines a method m
C13Witness ==
    /\ source = "fields"
    /\ status = "idle"
    /\ result = "runtime_error"
    /\ vm.stack_top = 0
    /\ obj_is_instance(vm, vm.stack[1])
    /\ LET i == vm.objects[vm.stack[1].v]
       IN /\ table_has(i.fields, NameId("m"))
          /\ ~Callable(vm, i.fields[NameId("m")])
          /\ Resolve(vm, i.cls, NameId("m")) # {}

\* C14: SET_GLOBAL never declares. For a name that is not defined it is a
\* runtime error and leaves the set of defined globals as it was; for a
\* defined name the global's value becomes peek(0) and the stack is unchanged.
SetGlobalNeverDeclares ==
    [][\A chars \in {"f", "g", "clock"} :
          OP_SET_GLOBAL(chars) =>
              IF ~table_has(vm.globals, NameId(chars))
              THEN /\ RaisedError
                   /\ DOMAIN vm'.globals = DOMAIN vm.globals
                   /\ vm'.globals = vm.globals
              ELSE /\ status' = "running"
                   /\ ~vm'.raised
                   /\ vm'.globals = [vm.globals EXCEPT ![NameId(chars)] =
                                         vm_stack_peek(vm, 0)]
                   /\ vm'.stack = vm.stack
                   /\ vm'.stack_top = vm.stack_top]_vars

\* clock, which no DEFINE_GLOBAL of the script declares, has been assigned a
\* number that is still on the stack
C14Witness ==
    /\ status = "running"
    /\ GlobalOf(vm, "clock") = {value_make_number(2)}
    /\ GlobalOf(vm, "g") = {}
    /\ vm.stack_top = 2
    /\ vm.stack[1] = value_make_number(2)

\* C15: NEGATE replaces a number n on top of the stack by -n without an
\* error, and is a runtime error when the top of the stack is not a number.
NegateNegatesNumbers ==
    [][OP_NEGATE =>
          LET x == vm_stack_peek(vm, 0)
          IN IF value_is_number(x)
             THEN /\ status' = "running"
                  /\ ~vm'.raised
                  /\ vm'.stack_top = vm.stack_top
                  /\ vm'.stack[vm.stack_top - 1] = value_make_number(0 - x.v)
             ELSE RaisedError]_vars

\* the indexing of list by index must be refused
IndexRefused(list, index) ==
    \/ ~obj_is_list(vm, list)
    \/ ~value_is_number(index)
    \/ ~obj_list_is_valid_index(vm.objects[list.v], double_to_int(index.v))

\* C16: LIST_GETIDX and LIST_SETIDX raise a runtime error, reading and
\* modifying no list, when the indexed value is not a list, the index is not
\* a number or the index is outside [0, count); otherwise GETIDX replaces
\* [list, index] by the element and SETIDX stores the item and replaces
\* [list, index, item] by the item.
ListIndexChecked ==
    [][/\ OP_LIST_GETIDX =>
              LET index == vm_stack_peek(vm, 0)
                  list == vm_stack_peek(vm, 1)
              IN IF IndexRefused(list, index)
                 THEN RaisedError /\ vm'.objects = vm.objects
                 ELSE /\ status' = "running"
                      /\ vm'.stack_top = vm.stack_top - 1
                      /\ vm'.stack[vm.stack_top - 2] =
                             vm.objects[list.v].items[double_to_int(index.v) + 1]
                      /\ vm'.objects = vm.objects
       /\ OP_LIST_SETIDX =>
              LET item == vm_stack_peek(vm, 0)
                  index == vm_stack_peek(vm, 1)
                  list == vm_stack_peek(vm, 2)
              IN IF IndexRefused(list, index)
                 THEN RaisedError /\ vm'.objects = vm.objects
                 ELSE /\ status' = "running"
                      /\ vm'.stack_top = vm.stack_top - 2
                      /\ vm'.stack[vm.stack_top - 3] = item
                      /\ vm'.objects = [vm.objects EXCEPT
                             ![list.v].items[double_to_int(index.v) + 1] = item]]_vars

\* C17: INHERIT copies only from the superclass into the subclass: it leaves
\* the superclass's method table as it was, gives the subclass every method of
\* the superclass, pops only the subclass, and is a runtime error when peek(1)
\* is not a class; a later METHOD on the subclass, an override included,
\* changes no other class's table.
InheritLeavesSuperclass ==
    [][/\ OP_INHERIT =>
              LET superclass == vm_stack_peek(vm, 1)
                  subclass == vm_stack_peek(vm, 0).v
              IN IF ~obj_is_class(vm, superclass) THEN RaisedError
                 ELSE /\ status' = "running"
                      /\ vm'.stack_top = vm.stack_top - 1
                      /\ vm'.stack[vm.stack_top - 2] = superclass
                      /\ superclass.v # subclass =>
                             vm'.objects[superclass.v].methods
                                 = vm.objects[superclass.v].methods
                      /\ \A name \in DOMAIN vm.objects[superclass.v].methods :
                             /\ table_has(vm'.objects[subclass].methods, name)
                             /\ vm'.objects[subclass].methods[name]
                                    = vm.objects[superclass.v].methods[name]
       /\ OP_METHOD("m") =>
              \A c \in DOMAIN vm.objects :
                  (vm.objects[c].kind = "class" /\ c # vm_stack_peek(vm, 1).v)
                      => vm'.objects[c] = vm.objects[c]]_vars

\* C18: LIST_INIT(n) replaces the top n values of the stack by one new list
\* that holds them in the order they were pushed, deepest first; the height
\* of the stack decreases by n - 1 and the values below are unchanged.
ListInitKeepsPushOrder ==
    [][\A n \in 0..MaxList :
          OP_LIST_INIT(n) =>
              LET list == Len(vm.objects) + 1
              IN /\ status' = "running"
                 /\ vm'.stack_top = vm.stack_top - (n - 1)
                 /\ vm'.stack[vm.stack_top - n] = value_make_obj(list)
                 /\ Len(vm'.objects) = list
                 /\ vm'.objects[list].kind = "list"
                 /\ vm'.objects[list].items =
                        [k \in 1..n |-> vm.stack[vm.stack_top - n + k - 1]]
                 /\ \A k \in 0..(vm.stack_top - n - 1) : vm'.stack[k] = vm.stack[k]
                 /\ \A i \in DOMAIN vm.objects : vm'.objects[i] = vm.objects[i]]_vars

\* the list built from 0 pushed first and 2 pushed second is the only value
\* above the script's slot
C18Witness ==
    /\ source = "lists"
    /\ status = "running"
    /\ vm.stack_top = 2
    /\ obj_is_list(vm, vm.stack[1])
    /\ vm.objects[vm.stack[1].v].items = <<value_make_number(0), value_make_number(2)>>

\* C19: SET_PROPERTY(name) with instance i at peek(1) and value v at peek(0)
\* replaces [i, v] by v and creates or overwrites the field name of i, and a
\* following GET_PROPERTY(name) on i yields v even when i's class defines a
\* method of that name; GET_PROPERTY of a name that is neither a field nor a
\* method is a runtime error, and both are a runtime error when the target is
\* not an instance.
FieldsShadowMethods ==
    [][/\ OP_SET_PROPERTY("m") =>
              LET i == vm_stack_peek(vm, 1)
                  v == vm_stack_peek(vm, 0)
                  name == NameId("m")
              IN IF ~obj_is_instance(vm, i) THEN RaisedError
                 ELSE /\ status' = "running"
                      /\ vm'.stack_top = vm.stack_top - 1
                      /\ vm'.stack[vm.stack_top - 2] = v
                      /\ \A k \in 0..(vm.stack_top - 3) : vm'.stack[k] = vm.stack[k]
                      /\ vm'.objects[i.v].fields[name] = v
                      /\ \A j \in DOMAIN vm.objects[i.v].fields \ {name} :
                             vm'.objects[i.v].fields[j] = vm.objects[i.v].fields[j]
                      /\ LET get == op_get_property(
                                        vm_stack_push(vm_stack_pop(vm'), i), name)
                         IN get.ok /\ vm_stack_peek(get.m, 0) = v
       /\ \A chars \in {"m", "f"} :
              OP_GET_PROPERTY(chars) =>
                  LET i == vm_stack_peek(vm, 0)
                      name == NameId(chars)
                  IN IF ~obj_is_instance(vm, i) THEN RaisedError
                     ELSE IF table_has(vm.objects[i.v].fields, name)
                     THEN /\ status' = "running"
                          /\ vm'.stack_top = vm.stack_top
                          /\ vm'.stack[vm.stack_top - 1] = vm.objects[i.v].fields[name]
                     ELSE Resolve(vm, vm.objects[i.v].cls, name) = {} => RaisedError]_vars

\* GET_PROPERTY has read the number stored in field m of the instance in slot
\* 1, whose class defines a method m
C19Witness ==
    /\ status = "running"
    /\ vm.stack_top = 3
    /\ obj_is_instance(vm, vm.stack[1])
    /\ vm.stack[2] = value_make_number(1)
    /\ LET i == vm.objects[vm.stack[1].v]
       IN /\ table_has(i.fields, NameId("m"))
          /\ i.fields[NameId("m")] = value_make_number(1)
          /\ Resolve(vm, i.cls, NameId("m")) # {}

\* the open upvalues whose slot is last or above
OpenFrom(last) ==
    {OpenUpvalues[i] : i \in {j \in 1..Len(OpenUpvalues) :
                                 vm.objects[OpenUpvalues[j]].location >= last}}

\* the step closed the open upvalues from slot last up, each with the value of
\* its slot, and left the others open
ClosedFrom(last) ==
    /\ \A u \in OpenFrom(last) :
          /\ vm'.objects[u].location = CLOSED
          /\ vm'.objects[u].closed = vm.stack[vm.objects[u].location]
    /\ \A u \in OpenFrom(0) \ OpenFrom(last) :
          /\ vm'.objects[u].location = vm.objects[u].location
          /\ \E i \in 1..Len(OpenList(vm'.objects, vm'.open_upvalues)) :
                 OpenList(vm'.objects, vm'.open_upvalues)[i] = u

\* every upvalue of the open list points into the live part of the stack
OpenUpvaluesInStack ==
    \A i \in 1..Len(OpenUpvalues) :
        /\ vm.objects[OpenUpvalues[i]].location >= 0
        /\ vm.objects[OpenUpvalues[i]].location < vm.stack_top

\* every variable that left scope is in its upvalue, with the value it had
\* then or the one SET_UPVALUE wrote since
ReleasedAreClosed ==
    \A u \in DOMAIN shadow :
        shadow[u].st = "released" =>
            /\ vm.objects[u].location = CLOSED
            /\ vm.objects[u].closed = shadow[u].val

\* C20: after every instruction each upvalue of the open list has its location
\* in [stack base, stack_top); RETURN closes every upvalue with location >=
\* frame.slots before it resets stack_top, CLOSE_UPVALUE closes the upvalue of
\* slot stack_top - 1 before it pops, and a closed upvalue holds the value its
\* slot had when it was closed.
UpvaluesClosedBeforePop ==
    /\ [](OpenUpvaluesInStack /\ ReleasedAreClosed)
    /\ [][/\ OP_RETURN => ClosedFrom(frame.slots)
          /\ OP_CLOSE_UPVALUE =>
                 ClosedFrom(vm.stack_top - 1) /\ vm'.stack_top = vm.stack_top - 1]_vars

\* one captured variable has been closed holding a number while another is
\* still open
C20Witness ==
    /\ status = "running"
    /\ Len(OpenUpvalues) >= 1
    /\ \E u \in DOMAIN shadow :
          /\ shadow[u].st = "released"
          /\ vm.objects[u].location = CLOSED
          /\ value_is_number(vm.objects[u].closed)

\* every active frame's base is inside the stack, at or below stack_top, and
\* the bases do not decrease from the bottom frame to the top frame
FramesInStack ==
    \A i \in 0..(vm.frame_count - 1) :
        /\ vm.frames[i].slots >= 0
        /\ vm.frames[i].slots <= vm.stack_top
        /\ i > 0 => vm.frames[i - 1].slots <= vm.frames[i].slots

\* if the step pushed a frame, its slot 0 holds callee and its slots 1..argc
\* the arguments, the last of which was at depth under
FrameHolds(callee, argc, under) ==
    vm'.frame_count = vm.frame_count + 1 =>
        LET slots == vm'.frames[vm.frame_count].slots
        IN /\ vm'.stack[slots] = callee
           /\ \A k \in 1..argc :
                  vm'.stack[slots + k] = vm_stack_peek(vm, under + argc - k)

\* slot 0 of the frame a CALL of callee pushes
CalleeSlot(callee) ==
    IF obj_is_kind(vm, callee, "bound_method") THEN vm.objects[callee.v].receiver
    ELSE IF obj_is_class(vm, callee) THEN value_make_obj(Len(vm.objects) + 1)
    ELSE callee

\* C21: every active frame's slots base lies inside the operand stack at or
\* below stack_top and the bases are non-decreasing from the bottom frame up;
\* when a frame is pushed its slot 0 holds the callee, which is the receiver
\* for a call through a bound method, an INVOKE resolved to a class method, a
\* SUPER_INVOKE or a class initializer, and its slots 1..argc hold the
\* arguments.
FrameLayout ==
    /\ []FramesInStack
    /\ [][\A argc \in 0..MaxArgc :
             /\ OP_CALL(argc, 0) =>
                    /\ FrameHolds(CalleeSlot(vm_stack_peek(vm, argc)), argc, 0)
                    /\ (vm'.frame_count = vm.frame_count + 1
                            /\ ~obj_is_kind(vm, vm_stack_peek(vm, argc), "closure"))
                           => obj_is_instance(vm',
                                  vm'.stack[vm'.frames[vm.frame_count].slots])
             /\ OP_INVOKE("m", argc, 0) =>
                    LET receiver == vm_stack_peek(vm, argc)
                        name == NameId("m")
                    IN obj_is_instance(vm, receiver) =>
                           IF table_has(vm.objects[receiver.v].fields, name)
                           THEN FrameHolds(CalleeSlot(
                                    vm.objects[receiver.v].fields[name]), argc, 0)
                           ELSE FrameHolds(receiver, argc, 0)
             /\ OP_SUPER_INVOKE("m", argc) =>
                    FrameHolds(vm_stack_peek(vm, argc + 1), argc, 1)]_vars

\* a method's frame is on top of the script's, with the receiver in its slot
\* 0 and the argument in its slot 1
C21Witness ==
    /\ status = "running"
    /\ vm.frame_count = 2
    /\ vm.frames[1].slots = 1
    /\ obj_is_instance(vm, vm.stack[1])
    /\ vm.stack[2] = value_make_number(1)
    /\ vm.stack_top = 3
    /\ source = "methods"

\* the upvalues of the closures reachable from the roots
ReachableUpvalues ==
    UNION {{vm.objects[c].upvalues[i] : i \in DOMAIN vm.objects[c].upvalues}
              : c \in {r \in Reachable(vm, {}) : vm.objects[r].kind = "closure"}}
        \ {NULL}

IsOpen(m, u) ==
    \E i \in 1..Len(OpenList(m.objects, m.open_upvalues)) :
        OpenList(m.objects, m.open_upvalues)[i] = u

\* C22: in every reachable state, the state a runtime error leaves included,
\* every upvalue of a reachable closure is on the open list or closed; no
\* upvalue leaves the open list while its location still points into the
\* stack, and an upvalue goes from open to closed at most once, never back.
UpvalueOpenOrClosed ==
    /\ [](\A u \in ReachableUpvalues :
              vm.objects[u].location = CLOSED \/ IsOpen(vm, u))
    /\ [][\A u \in DOMAIN vm.objects :
              vm.objects[u].kind = "upvalue" =>
                  /\ vm.objects[u].location = CLOSED => vm'.objects[u].location = CLOSED
                  /\ (IsOpen(vm, u) /\ ~IsOpen(vm', u))
                         => vm'.objects[u].location = CLOSED]_vars

RECURSIVE push_args(_, _, _, _)
\* the machine to with the top argc values of from pushed in their order
push_args(to, from, argc, k) ==
    IF k > argc THEN to
    ELSE push_args(vm_stack_push(to, vm_stack_peek(from, argc - k)), from, argc, k + 1)

\* GET_PROPERTY name on the receiver under the argc arguments, then CALL argc
\* with the same arguments
SlowPath(m, name, argc) ==
    LET get == op_get_property(pop_times(m, argc), name)
    IN IF ~get.ok THEN get
       ELSE op_call(push_args(get.m, m, argc, 1), argc, 0)

\* the machines agree but for the objects the second allocated beyond the
\* first's, all of them bound methods
SameButBoundMethods(a, b) ==
    /\ a.raised = b.raised
    /\ a.frame_count = b.frame_count
    /\ a.stack_top = b.stack_top
    /\ \A i \in 0..(a.frame_count - 1) : a.frames[i] = b.frames[i]
    /\ \A i \in 0..(a.stack_top - 1) : a.stack[i] = b.stack[i]
    /\ a.open_upvalues = b.open_upvalues
    /\ a.globals = b.globals
    /\ Len(a.objects) <= Len(b.objects)
    /\ \A i \in DOMAIN b.objects :
          IF i \in DOMAIN a.objects THEN a.objects[i] = b.objects[i]
          ELSE b.objects[i].kind = "bound_method"

\* C23: for every receiver, name and argc, INVOKE(name, argc) leaves the VM in
\* the state that GET_PROPERTY(name) on the receiver followed by CALL argc
\* with the same arguments leaves it in: the same error or success, the same
\* frame with the same closure and base, the same slot 0, the same
\* frame_count; only the bound method of the slow path is extra.
InvokeIsGetPropertyThenCall ==
    [][\A argc \in 0..MaxArgc :
          OP_INVOKE("m", argc, 0) =>
              LET slow == SlowPath(vm, NameId("m"), argc)
              IN /\ (status' = "running") = slow.ok
                 /\ SameButBoundMethods(vm', slow.m)]_vars

\* INVOKE has pushed the frame of a class method for an instance that has no
\* field of that name
C23Witness ==
    /\ source = "fields"
    /\ status = "running"
    /\ vm.frame_count = 2
    /\ obj_is_instance(vm, vm.stack[vm.frames[1].slots])
    /\ LET i == vm.objects[vm.stack[vm.frames[1].slots].v]
       IN /\ ~table_has(i.fields, NameId("m"))
          /\ Resolve(vm, i.cls, NameId("m")) = {value_make_obj(vm.frames[1].closure)}

\* C24: whenever interpret has returned, with OK or with the runtime error,
\* frame_count is 0, the operand stack is empty and the open-upvalue list is
\* empty (the state the next interpret call starts from).
ReturnsClean ==
    (status = "idle" /\ result \in {"ok", "runtime_error"}) =>
        /\ vm.frame_count = 0
        /\ vm.stack_top = 0
        /\ vm.open_upvalues = NULL

\* The rest of C24, for scripts in which no native function raises: the next
\* interpret installs its script closure at stack[0] as frame 0 with slots at
\* the stack's base, and the globals that earlier calls defined remain
\* defined.
InterpretReentrant ==
    /\ []ReturnsClean
    /\ [][InterpretAgain("script") =>
              LET closure == vm'.frames[0].closure
              IN /\ vm'.frame_count = 1
                 /\ vm'.frames[0].slots = 0
                 /\ vm'.stack_top = 1
                 /\ vm'.stack[0] = value_make_obj(closure)
                 /\ closure \notin DOMAIN vm.objects
                 /\ vm'.objects[closure].kind = "closure"
                 /\ vm'.objects[vm'.objects[closure].function].name = NULL
                 /\ vm'.open_upvalues = NULL
                 /\ \A k \in DOMAIN vm.globals :
                        k \in DOMAIN vm'.globals /\ vm'.globals[k] = vm.globals[k]]_vars

\* a second script, run after the first ended with a runtime error, has read
\* the global the first defined
SecondRunReadsGlobal ==
    /\ Runs(vm) = 2
    /\ status = "running"
    /\ vm.frame_count = 1
    /\ vm.frames[0].slots = 0
    /\ vm.stack_top = 2
    /\ obj_is_kind(vm, vm.stack[1], "closure")
    /\ GlobalOf(vm, "f") = {vm.stack[1]}
    /\ \E u \in DOMAIN shadow : shadow[u].st = "orphan"

====
